---------------------------- MODULE Spec2Model ----------------------------
(***************************************************************************)
(* State-machine model of the Synaccess netBooter B Series module:        *)
(*   - SynaccessHttpClient (src/http.js): the serialized transport,       *)
(*   - the action callbacks (src/actions.js): set_outlet, reboot_outlet,  *)
(*   - SynaccessNetBooterBSeriesInstance (src/main.js, first revision in  *)
(*     the file): init, configUpdated, polling, reboot locks,             *)
(*   - parseStatusResponse / assertActionOk (src/config.js).              *)
(*                                                                         *)
(* One action of the model is one macrotask of the Node.js event loop     *)
(* (a user callback, a timer callback, a network event) together with     *)
(* every promise reaction it triggers, in the order the promise job queue *)
(* runs them.  Every armed timer carries the milliseconds left until it   *)
(* is due; time passes in the Advance action, and a due timer may fire    *)
(* late.                                                                   *)
(***************************************************************************)
EXTENDS Integers, Sequences, FiniteSets, TLC

(***************************************************************************)
(* Bounds of the model (not program constants).                            *)
(***************************************************************************)
\* Number of inputs the environment gives after init(): action-callback
\* invocations, configUpdated() calls and interval ticks that poll.
MaxOps == 2
\* Number of refresh_status invocations (an input of SpecPoll only).
MaxRefreshes == 1

(***************************************************************************)
(* Program constants.                                                      *)
(***************************************************************************)
\* src/actions.js:117  settle pause before the ON leg
SettleMs == 25
\* src/actions.js:79   delay used when the supplied delay is not >= 0
DefaultDelayMs == 5000
\* src/main.js:48      outlet count before the first successful poll
InitialPortCount == 5

(***************************************************************************)
(* Inputs the environment may supply.                                      *)
(***************************************************************************)
\* Outlets named by action callbacks.
ActionOutlets == {1, 2}
\* state option values of set_outlet.
SetStates == {0, 1}
\* delayMs option values of reboot_outlet.
RebootDelays == {100}
\* Host values of a configuration: empty, or a device address.
Hosts == {"", "192.168.1.100"}
\* controlPaceMs values of a configuration.
PaceValues == {0, 50}
\* pollIntervalMs values of a configuration.
PollIntervals == {2000}
ConfigChoices ==
    [host : Hosts, controlPaceMs : PaceValues, pollIntervalMs : PollIntervals]

\* How one HTTP exchange can end (src/http.js:134-173).
\*   "A0", "AF", "junk" : a 2xx reply whose body starts with $A0, with $AF,
\*                        or with neither;
\*   "status2","status5","status3" : a 2xx reply to $A5 carrying 2, 5 or 3 bits;
\*   "ECONNRESET" : an error of the class _shouldResetAgent recognises;
\*   "timeout"    : any other failure (request timeout, non-2xx status, ...).
ControlReplies == {"A0", "AF", "junk"}
StatusReplies == {"status2", "status5", "status3"}
Failures == {"ECONNRESET", "timeout"}

\* Body text of each reply, as a sequence of characters.
ReplyBody(o) ==
    CASE o = "A0" -> <<"$", "A", "0">>
      [] o = "AF" -> <<"$", "A", "F">>
      [] o = "junk" -> <<"?">>
      [] o = "status2" -> <<"$", "A", "0", ",", "0", "1">>
      [] o = "status5" -> <<"1", "0", "1", "0", "0", ",", "3", ",", "2", "5">>
      [] o = "status3" -> <<"0", "0", "0">>
      [] OTHER -> << >>

(***************************************************************************)
(* Codec (src/config.js).  Text is a sequence of one-character strings.    *)
(***************************************************************************)
Min(S) == CHOOSE x \in S : \A y \in S : x <= y

RECURSIVE TrimLeft(_)
TrimLeft(s) ==
    IF s # << >> /\ Head(s) = " " THEN TrimLeft(Tail(s)) ELSE s

RECURSIVE TrimRight(_)
TrimRight(s) ==
    IF s # << >> /\ s[Len(s)] = " " THEN TrimRight(SubSeq(s, 1, Len(s) - 1))
    ELSE s

\* String.prototype.trim
Trim(s) == TrimRight(TrimLeft(s))

\* String.prototype.startsWith
StartsWith(s, p) == Len(s) >= Len(p) /\ SubSeq(s, 1, Len(p)) = p

\* String.prototype.indexOf for one character: 1-based, 0 when absent
IndexOf(s, c) ==
    IF \E i \in 1..Len(s) : s[i] = c
    THEN Min({i \in 1..Len(s) : s[i] = c})
    ELSE 0

\* String.prototype.split(',')
RECURSIVE Split(_)
Split(s) ==
    LET idx == IndexOf(s, ",")
    IN  IF idx = 0 THEN <<s>>
        ELSE <<SubSeq(s, 1, idx - 1)>> \o Split(SubSeq(s, idx + 1, Len(s)))

Digits == {"0", "1", "2", "3", "4", "5", "6", "7", "8", "9"}
DigitValue(c) ==
    CASE c = "0" -> 0 [] c = "1" -> 1 [] c = "2" -> 2 [] c = "3" -> 3
      [] c = "4" -> 4 [] c = "5" -> 5 [] c = "6" -> 6 [] c = "7" -> 7
      [] c = "8" -> 8 [] c = "9" -> 9

RECURSIVE DecimalValue(_)
DecimalValue(s) ==
    IF s = << >> THEN 0
    ELSE 10 * DecimalValue(SubSeq(s, 1, Len(s) - 1)) + DigitValue(s[Len(s)])

\* Number(text) followed by the !Number.isNaN test of parseStatusResponse:
\* <<n>> when Number() yields the number n, << >> when it yields NaN.
\* Number("") and Number of blanks are 0; an unsigned digit string is its
\* decimal value; any other text of the model's alphabet is NaN.
NumberOrUndefined(s) ==
    LET t == Trim(s)
    IN  IF t = << >> THEN <<0>>
        ELSE IF \A i \in 1..Len(t) : t[i] \in Digits THEN <<DecimalValue(t)>>
        ELSE << >>

IsBit(c) == c \in {"0", "1"}

\* Fault model of normalizeCmd: every single space becomes a +.
RECURSIVE NormalizeCmdEachSpace(_)
NormalizeCmdEachSpace(cmd) ==
    LET t == Trim(cmd)
    IN  IF t = << >> THEN << >>
        ELSE <<IF Head(t) = " " THEN "+" ELSE Head(t)>> \o
             (IF Tail(t) = << >> THEN << >>
              ELSE [k \in 1..(Len(t) - 1) |-> IF t[k + 1] = " " THEN "+" ELSE t[k + 1]])

\* s.replace(/ +/g, '+')
RECURSIVE ReplaceSpaceRuns(_)
ReplaceSpaceRuns(s) ==
    IF s = << >> THEN << >>
    ELSE IF Head(s) = " " THEN <<"+">> \o ReplaceSpaceRuns(TrimLeft(Tail(s)))
    ELSE <<Head(s)>> \o ReplaceSpaceRuns(Tail(s))

\* normalizeCmd(cmd)
NormalizeCmd(cmd) == ReplaceSpaceRuns(Trim(cmd))

\* Fault models of parseStatusResponse: the $A0 prefix is not stripped
\* (its 0 is then counted as a bit), and the bits are read left to right.
ParseStatusResponseKeepsPrefix(raw) ==
    LET firstToken == Trim(Split(Trim(raw))[1])
        bits == SelectSeq(firstToken, IsBit)
        n == Len(bits)
    IN  IF n # 2 /\ n # 5 THEN [ok |-> FALSE]
        ELSE [ok |-> TRUE, portCount |-> n,
              outlets |-> [outlet \in 1..n |->
                              IF bits[n - outlet + 1] = "1" THEN "true" ELSE "false"],
              bits |-> bits, currentAmps |-> << >>, tempC |-> << >>]

ParseStatusResponseLeftToRight(raw) ==
    LET text == Trim(raw)
        idx == IndexOf(text, ",")
        remainder ==
            IF StartsWith(text, <<"$", "A", "0">>)
            THEN (IF idx >= 1 THEN SubSeq(text, idx + 1, Len(text)) ELSE << >>)
            ELSE text
        bits == SelectSeq(Trim(Split(remainder)[1]), IsBit)
        n == Len(bits)
    IN  IF n # 2 /\ n # 5 THEN [ok |-> FALSE]
        ELSE [ok |-> TRUE, portCount |-> n,
              outlets |-> [outlet \in 1..n |->
                              IF bits[outlet] = "1" THEN "true" ELSE "false"],
              bits |-> bits, currentAmps |-> << >>, tempC |-> << >>]

\* Fault model of parseStatusResponse: any number of bits from 1 on is
\* taken as the outlet count.
ParseStatusResponseAnyCount(raw) ==
    LET text == Trim(raw)
        idx == IndexOf(text, ",")
        remainder ==
            IF StartsWith(text, <<"$", "A", "0">>)
            THEN (IF idx >= 1 THEN SubSeq(text, idx + 1, Len(text)) ELSE << >>)
            ELSE text
        bits == SelectSeq(Trim(Split(remainder)[1]), IsBit)
        n == Len(bits)
    IN  IF n = 0 THEN [ok |-> FALSE]
        ELSE [ok |-> TRUE, portCount |-> n,
              outlets |-> [outlet \in 1..n |->
                              IF bits[n - outlet + 1] = "1" THEN "true" ELSE "false"],
              bits |-> bits, currentAmps |-> << >>, tempC |-> << >>]

\* parseStatusResponse(raw): [ok |-> FALSE] when it throws, otherwise the
\* returned object.
ParseStatusResponse(raw) ==
    LET text == Trim(raw)
        idx == IndexOf(text, ",")
        remainder ==
            IF StartsWith(text, <<"$", "A", "0">>)
            THEN (IF idx >= 1 THEN SubSeq(text, idx + 1, Len(text)) ELSE << >>)
            ELSE text
        firstToken == Trim(Split(remainder)[1])
        bits == SelectSeq(firstToken, IsBit)
        n == Len(bits)
        parts == Split(remainder)
        wide == Len(parts) >= 3
    IN  IF n # 2 /\ n # 5
        THEN [ok |-> FALSE]
        ELSE [ok |-> TRUE,
              portCount |-> n,
              outlets |-> [outlet \in 1..n |->
                              IF bits[n - outlet + 1] = "1" THEN "true"
                              ELSE "false"],
              bits |-> bits,
              currentAmps |->
                  IF wide THEN NumberOrUndefined(parts[Len(parts) - 1])
                  ELSE << >>,
              tempC |->
                  IF wide THEN NumberOrUndefined(parts[Len(parts)])
                  ELSE << >>]

\* Fault model of assertActionOk: any reply starting with $A passes.
AssertActionOkLoose(body) ==
    IF StartsWith(body, <<"$", "A">>) THEN "ok" ELSE "unexpected"

\* assertActionOk(body): "ok" when it returns, otherwise the error thrown.
AssertActionOk(body) ==
    IF StartsWith(body, <<"$", "A", "0">>) THEN "ok"
    ELSE IF StartsWith(body, <<"$", "A", "F">>) THEN "$AF"
    ELSE "unexpected"

\* The message of the Error assertActionOk throws (<< >> when it returns);
\* the context argument is left out of the text.
ActionErrorMessage(body) ==
    CASE AssertActionOk(body) = "ok" -> << >>
      [] AssertActionOk(body) = "$AF" -> <<"Device returned $AF for ">>
      [] OTHER -> <<"Unexpected response for : ">> \o body

\* Fault model of the rendering: outlet 1 is written last.
OutletsBitsWireOrder(count, states) ==
    [i \in 1..count |->
        IF count + 1 - i <= Len(states) /\ states[count + 1 - i] = "true"
        THEN "1" ELSE "0"]

\* vars['outlets_bits'] of updateVariablesFromState: one character per
\* outlet i = 1..portCount, '1' when outletState[i - 1] is truthy.
OutletsBits(count, states) ==
    [i \in 1..count |-> IF i <= Len(states) /\ states[i] = "true" THEN "1" ELSE "0"]

\* Fault model of assertValidOutlet: only the lower end is tested.
ValidOutletNoUpper(outlet, count) == outlet \in Int /\ outlet >= 1

\* assertValidOutlet(outlet, portCount) returns without throwing.
ValidOutlet(outlet, count) == outlet \in Int /\ outlet >= 1 /\ outlet <= count

VARIABLES
    lifecycle,          \* "constructed" until init() has run, then "running"
    config,             \* instance.config
    portCount,          \* instance.portCount
    outletState,        \* instance.outletState (array; "hole" = missing slot)
    currentAmps,        \* instance.currentAmps ("undefined" or a number)
    tempC,              \* instance.tempC
    lastError,          \* instance.lastError
    status,             \* InstanceStatus last passed to updateStatus
    pollTimer,          \* instance._pollTimer is armed
    isPolling,          \* instance._isPolling
    needsStatusRefresh, \* instance._needsStatusRefresh
    rebootLocks,        \* instance._rebootLocks
    rebootInProgress,   \* instance._rebootInProgress
    rebootingOutlets,   \* instance._rebootingOutlets
    agent,              \* identity of http._agent (a fresh number per Agent)
    pending,            \* http._pending
    reqs,               \* every request accepted by get(), in submission order
                        \*   (a settled request is kept as a blank record)
    wire,               \* ids of requests in the order their exchange started
    delivered,          \* ids of requests in the order get()'s promise settled
    calls,              \* every action-callback invocation, in call order
                        \*   (an ended invocation is kept as a blank record)
    lastEnded,          \* what the invocation that ended last had done
    cfgUpdates,         \* number of configUpdated() calls so far
    tickPolls,          \* number of polls submitted by the interval timer
    refreshes,          \* number of refresh_status invocations so far
    timeoutMs,          \* the timeoutMs option given to get()
    controlTimeoutMs,   \* config.controlTimeoutMs as run() reads it
    requestTimeoutMs,   \* requestTimeoutMs as run() computes it
    codecCall,          \* a call of one of the pure functions of
                        \*   src/config.js and src/variables.js: [fn, arg]
    codecResult         \* what that call returned or threw

vars == <<lifecycle, config, portCount, outletState, currentAmps, tempC,
          lastError, status, pollTimer, isPolling, needsStatusRefresh,
          rebootLocks, rebootInProgress, rebootingOutlets, agent, pending,
          reqs, wire, delivered, calls, lastEnded, cfgUpdates,
          tickPolls, refreshes, timeoutMs, controlTimeoutMs,
          requestTimeoutMs, codecCall, codecResult>>

\* The whole program state as one record, so that a handler is the
\* composition of the functions it calls.
Cur ==
    [lifecycle |-> lifecycle, config |-> config, portCount |-> portCount,
     outletState |-> outletState, currentAmps |-> currentAmps, tempC |-> tempC,
     lastError |-> lastError, status |-> status, pollTimer |-> pollTimer,
     isPolling |-> isPolling, needsStatusRefresh |-> needsStatusRefresh,
     rebootLocks |-> rebootLocks, rebootInProgress |-> rebootInProgress,
     rebootingOutlets |-> rebootingOutlets, agent |-> agent,
     pending |-> pending, reqs |-> reqs, wire |-> wire,
     delivered |-> delivered, calls |-> calls,
     lastEnded |-> lastEnded, cfgUpdates |-> cfgUpdates,
     tickPolls |-> tickPolls, refreshes |-> refreshes]

Becomes(S) ==
    /\ lifecycle' = S.lifecycle
    /\ config' = S.config
    /\ portCount' = S.portCount
    /\ outletState' = S.outletState
    /\ currentAmps' = S.currentAmps
    /\ tempC' = S.tempC
    /\ lastError' = S.lastError
    /\ status' = S.status
    /\ pollTimer' = S.pollTimer
    /\ isPolling' = S.isPolling
    /\ needsStatusRefresh' = S.needsStatusRefresh
    /\ rebootLocks' = S.rebootLocks
    /\ rebootInProgress' = S.rebootInProgress
    /\ rebootingOutlets' = S.rebootingOutlets
    /\ agent' = S.agent
    /\ pending' = S.pending
    /\ reqs' = S.reqs
    /\ wire' = S.wire
    /\ delivered' = S.delivered
    /\ calls' = S.calls
    /\ cfgUpdates' = S.cfgUpdates
    /\ lastEnded' = S.lastEnded
    /\ tickPolls' = S.tickPolls
    /\ refreshes' = S.refreshes
    /\ UNCHANGED <<timeoutMs, controlTimeoutMs, requestTimeoutMs>>
    /\ UNCHANGED <<codecCall, codecResult>>


(***************************************************************************)
(* Transport: SynaccessHttpClient (src/http.js).                           *)
(***************************************************************************)
Settled == {"ok", "failed", "settled"}

NoCmd == [kw |-> "", outlet |-> 0, state |-> 0]
NewReq(cmd, call, leg, prev) ==
    [cmd |-> cmd, call |-> call, leg |-> leg, prev |-> prev,
     st |-> "queued", waited |-> FALSE, agent |-> 0, outcome |-> "",
     timer |-> 0]
\* What is kept of a request once its promise has settled.
SettledReq == [NewReq(NoCmd, 0, "", 0) EXCEPT !.st = "settled"]

\* The identity of a newly created http.Agent: a number that names neither
\* the current Agent nor one that the exchange of a request runs on or,
\* for a request being settled, ran on (an identity is free again once
\* nothing refers to its object).
FreshAgent(S) ==
    Min({a \in 1..(Len(S.reqs) + 2) :
            /\ a # S.agent
            /\ \A i \in 1..Len(S.reqs) :
                  S.reqs[i].st \in {"inflight", "ok", "failed"}
                  => S.reqs[i].agent # a})

\* resetAgent(): destroy() the current Agent (and with it every socket the
\* Agent holds, in use or idle) and install a fresh one.
ResetAgent(S) == [S EXCEPT !.agent = FreshAgent(S)]

\* Fault model of _shouldResetAgent: no error resets the Agent.
ShouldResetAgentNever(outcome) == FALSE

\* _shouldResetAgent(err)
ShouldResetAgent(outcome) == outcome \in {"ECONNRESET", "ECONNREFUSED", "EPIPE"}

\* _isControlCmd(cmdStr)
IsControlCmd(cmd) == cmd.kw \in {"$A3", "$A4", "$A7"}

\* The delay _applyControlPace(cmdStr) sleeps for (0: it returns at once).
ControlPaceMs(S, cmd) ==
    IF ~IsControlCmd(cmd) THEN 0
    ELSE IF S.config.controlPaceMs > 0 THEN S.config.controlPaceMs
    ELSE 0

\* Fault model of get(): a request is queued without a host.
GetAcceptsAlways(S) == TRUE

\* get() throws before queueing when no host is configured.
GetAccepts(S) == S.config.host # ""

\* Fault models of the queue chain: one that never waits, one that waits
\* for the request before the previous one, one that runs a request only
\* after its predecessor was fulfilled.
QueueReadyAlways(rs, prev) == TRUE
QueueReadyStale(rs, prev) == prev <= 1 \/ rs[prev - 1].st \in {"ok", "failed", "settled"}
QueueReadyOnFulfilled(rs, prev) == prev = 0 \/ rs[prev].st \in {"ok", "settled"}

\* this._queue.then(onFulfilled, onRejected): the request chained behind
\* request `prev` (0: the initially resolved promise) runs once the promise
\* of `prev`, with its rejection swallowed, has settled.
QueueReady(rs, prev) == prev = 0 \/ rs[prev].st \in Settled

\* Fault model of run(): the exchange starts without being counted.
StartRunUncounted(S, i) ==
    [S EXCEPT !.reqs[i].st = "inflight",
              !.reqs[i].agent = S.agent,
              !.wire = Append(@, i)]

\* The head of run(): this._pending++ and http.request(opts) on the current
\* Agent.
StartRun(S, i) ==
    [S EXCEPT !.reqs[i].st = "inflight",
              !.reqs[i].agent = S.agent,
              !.pending = @ + 1,
              !.wire = Append(@, i)]

\* The promise job that runs the request whose turn has come, if any.
StartReady(S) ==
    LET ready == {i \in 1..Len(S.reqs) :
                     S.reqs[i].st = "queued" /\ QueueReady(S.reqs, S.reqs[i].prev)}
    IN  IF ready = {} THEN S ELSE StartRun(S, Min(ready))

\* get(cmd) with a host configured: chain the request on the queue.
\* `waited` records that run() was deferred behind an earlier request.
Get(S, cmd, call, leg) ==
    LET n == Len(S.reqs) + 1
        S1 == StartReady([S EXCEPT !.reqs = Append(@, NewReq(cmd, call, leg, n - 1))])
    IN  IF S1.reqs[n].st = "queued" THEN [S1 EXCEPT !.reqs[n].waited = TRUE] ELSE S1

\* A request whose exchange runs on an Agent that has since been destroyed.
TornDown(S, i) == S.reqs[i].st = "inflight" /\ S.reqs[i].agent # S.agent

(***************************************************************************)
(* The timeout selection of run() (src/http.js:117-118). A JavaScript      *)
(* value is a number, undefined or NaN.                                    *)
(***************************************************************************)
TimeoutFloorMs == 250
FallbackTimeoutMs == 20000

Num(n) == [kind |-> "number", n |-> n]
UndefinedValue == [kind |-> "undefined", n |-> 0]
NaNValue == [kind |-> "NaN", n |-> 0]

\* Number(v) for v undefined or a number
NumberOf(v) == IF v.kind = "undefined" THEN NaNValue ELSE v

\* a ?? b
Coalesce(a, b) == IF a.kind = "undefined" THEN b ELSE a

\* Number.isFinite(v)
IsFinite(v) == v.kind = "number"

\* const timeoutMsRaw = timeoutMs ?? Number(cfg.controlTimeoutMs) ?? 20000
\* const requestTimeoutMs =
\*     Number.isFinite(timeoutMsRaw) && timeoutMsRaw >= 250 ? timeoutMsRaw : 20000
RequestTimeoutMs(override, configured) ==
    LET timeoutMsRaw ==
            Coalesce(Coalesce(override, NumberOf(configured)), Num(FallbackTimeoutMs))
    IN  IF IsFinite(timeoutMsRaw) /\ timeoutMsRaw.n >= TimeoutFloorMs
        THEN timeoutMsRaw
        ELSE Num(FallbackTimeoutMs)

(***************************************************************************)
(* Instance helpers (src/main.js).                                         *)
(***************************************************************************)
BadConfigMessage == "Device host/IP is required in the configuration"

\* _hasValidConfig() returns true
HasValidConfig(S) == S.config.host # ""

\* The side effects of _hasValidConfig() when it returns false.
ReportBadConfig(S) ==
    [S EXCEPT !.lastError = BadConfigMessage, !.status = "BadConfig"]

\* stopPolling()
StopPolling(S) == [S EXCEPT !.pollTimer = FALSE]

\* Number(config.pollIntervalMs) || 2000
EffectiveIntervalMs(S) ==
    IF S.config.pollIntervalMs = 0 THEN 2000 ELSE S.config.pollIntervalMs

\* startPolling()
StartPolling(S) ==
    IF EffectiveIntervalMs(S) <= 0 THEN S
    ELSE IF ~HasValidConfig(S) THEN ReportBadConfig(S)
    ELSE [StopPolling(S) EXCEPT !.pollTimer = TRUE]

\* Fault models of _lockReboot: a lock that is always granted, and one
\* lock for all outlets.
LockRebootFreeAlways(S, outlet) == TRUE
LockRebootFreeGlobal(S, outlet) == S.rebootLocks = {}

\* _lockReboot(outlet) returns true
LockRebootFree(S, outlet) == outlet \notin S.rebootLocks

\* Fault model of _lockReboot: the outlet is not marked as rebooting.
LockRebootUnshown(S, outlet) == [S EXCEPT !.rebootLocks = @ \cup {outlet}]

\* _lockReboot(outlet), when it takes the lock
LockReboot(S, outlet) ==
    [S EXCEPT !.rebootLocks = @ \cup {outlet},
              !.rebootingOutlets = @ \cup {outlet}]

\* Fault model of _unlockReboot: a lock that is never given back.
UnlockRebootNever(S, outlet) == S

\* _unlockReboot(outlet)
UnlockReboot(S, outlet) ==
    [S EXCEPT !.rebootLocks = @ \ {outlet},
              !.rebootingOutlets = @ \ {outlet}]

\* Fault model of the array write: every slot up to the end is written.
ArraySetFill(arr, idx, v) ==
    [k \in 1..(IF idx > Len(arr) THEN idx ELSE Len(arr)) |-> v]

\* arr[idx - 1] = v on a JavaScript array (idx is 1-based here): a write
\* past the end leaves holes.
ArraySet(arr, idx, v) ==
    [k \in 1..(IF idx > Len(arr) THEN idx ELSE Len(arr)) |->
        IF k = idx THEN v ELSE IF k <= Len(arr) THEN arr[k] ELSE "hole"]

\* refreshStatus() submits a $A5 request (it neither returns early nor
\* fails in get()).
RefreshSubmits(S) == HasValidConfig(S) /\ ~S.isPolling /\ GetAccepts(S)

\* refreshStatus() up to its first suspension.
RefreshStatus(S, leg) ==
    IF ~HasValidConfig(S) THEN [ReportBadConfig(S) EXCEPT !.isPolling = FALSE]
    ELSE IF S.isPolling THEN S
    ELSE IF GetAccepts(S)
         THEN Get([S EXCEPT !.isPolling = TRUE], [kw |-> "$A5", outlet |-> 0, state |-> 0], 0, leg)
         ELSE [S EXCEPT !.lastError = "Device host is not configured",
                        !.status = "ConnectionFailure",
                        !.isPolling = FALSE]

\* Fault models of the end of a poll: a decoded snapshot without telemetry
\* keeps the cached telemetry, and a failed poll forgets the cached
\* snapshot.
PollEndKeepsTelemetry(S, body, failure) ==
    LET parsed == ParseStatusResponse(body)
    IN  IF failure = "" /\ parsed.ok
        THEN [S EXCEPT !.portCount = parsed.portCount,
                       !.outletState = parsed.outlets,
                       !.currentAmps = IF parsed.currentAmps = << >> THEN @
                                       ELSE parsed.currentAmps,
                       !.tempC = IF parsed.tempC = << >> THEN @ ELSE parsed.tempC,
                       !.lastError = "",
                       !.status = "Ok",
                       !.isPolling = FALSE]
        ELSE [S EXCEPT !.lastError =
                           IF failure # "" THEN failure
                           ELSE "Unable to parse outlet bits from status",
                       !.status = "ConnectionFailure",
                       !.isPolling = FALSE]

PollEndForgets(S, body, failure) ==
    LET parsed == ParseStatusResponse(body)
    IN  IF failure = "" /\ parsed.ok
        THEN [S EXCEPT !.portCount = parsed.portCount,
                       !.outletState = parsed.outlets,
                       !.currentAmps = parsed.currentAmps,
                       !.tempC = parsed.tempC,
                       !.lastError = "",
                       !.status = "Ok",
                       !.isPolling = FALSE]
        ELSE [S EXCEPT !.currentAmps = << >>,
                       !.tempC = << >>,
                       !.lastError =
                           IF failure # "" THEN failure
                           ELSE "Unable to parse outlet bits from status",
                       !.status = "ConnectionFailure",
                       !.isPolling = FALSE]

\* refreshStatus() from the reply of its $A5 request to its end.
\* `failure` is "" when get() resolved, else the error message.
PollEnd(S, body, failure) ==
    LET parsed == ParseStatusResponse(body)
    IN  IF failure = "" /\ parsed.ok
        THEN [S EXCEPT !.portCount = parsed.portCount,
                       !.outletState = parsed.outlets,
                       !.currentAmps = parsed.currentAmps,
                       !.tempC = parsed.tempC,
                       !.lastError = "",
                       !.status = "Ok",
                       !.isPolling = FALSE]
        ELSE [S EXCEPT !.lastError =
                           IF failure # "" THEN failure
                           ELSE "Unable to parse outlet bits from status",
                       !.status = "ConnectionFailure",
                       !.isPolling = FALSE]

(***************************************************************************)
(* Action callbacks (src/actions.js).                                      *)
(***************************************************************************)
NewCall(op, outlet, arg) ==
    [op |-> op, outlet |-> outlet, arg |-> arg, phase |-> "Called",
     outcome |-> "pending", result |-> "", cause |-> "", timer |-> 0,
     sinceOff |-> 0, events |-> << >>]
\* What is kept of an invocation once nothing of it is left to run.
EndedCall == [NewCall("", 0, 0) EXCEPT !.phase = "Ended"]

\* The invocation c has nothing left to run.
End(S, c) ==
    [S EXCEPT !.calls[c] = EndedCall,
              !.lastEnded = [op |-> S.calls[c].op, outlet |-> S.calls[c].outlet,
                             outcome |-> S.calls[c].outcome,
                             result |-> S.calls[c].result,
                             cause |-> S.calls[c].cause,
                             events |-> S.calls[c].events]]

\* Fault model of delayMs: no delay at all.
DelayMsNone(rawDelay) == 0

\* delayMs of reboot_outlet
DelayMs(rawDelay) == IF rawDelay >= 0 THEN rawDelay ELSE DefaultDelayMs

\* Fault model of the reply check: every reply counts as success.
LegResultLenient(outcome) ==
    IF outcome \in {"A0", "AF", "junk"} THEN "ok" ELSE outcome

\* assertActionOk(await instance.http.get(...)): "ok" when it returns,
\* otherwise the error thrown, for a get() that ended with `outcome`.
LegResult(outcome) ==
    IF outcome \in ControlReplies THEN AssertActionOk(ReplyBody(outcome))
    ELSE outcome

NoHost == "Device host is not configured"

Log(S, c, ev) == [S EXCEPT !.calls[c].events = Append(@, ev)]

\* Fault model of the tail of set_outlet: the refresh is asked for whether
\* or not the command succeeded.
SetOutletEndFlagsAlways(S, c, outcome) ==
    IF LegResult(outcome) = "ok"
    THEN End([S EXCEPT !.needsStatusRefresh = TRUE,
                       !.calls[c].result = "ok",
                       !.calls[c].outcome = "returned"], c)
    ELSE End([S EXCEPT !.needsStatusRefresh = TRUE,
                       !.calls[c].result = "failed",
                       !.calls[c].outcome = "threw"], c)

\* set_outlet callback after `await instance.http.get(...)`, which ended
\* with `outcome`.
SetOutletEnd(S, c, outcome) ==
    IF LegResult(outcome) = "ok"
    THEN End([S EXCEPT !.needsStatusRefresh = TRUE,
                       !.calls[c].result = "ok",
                       !.calls[c].outcome = "returned"], c)
    ELSE End([S EXCEPT !.calls[c].result = "failed",
                       !.calls[c].outcome = "threw"], c)

\* Fault model of the rejection: the sequence count is taken before the
\* lock is tried.
RejectRebootCounting(S, c) ==
    End([S EXCEPT !.rebootInProgress = @ + 1,
                  !.calls[c].result = "ignored",
                  !.calls[c].outcome = "returned"], c)

\* reboot_outlet callback when _lockReboot() returns false: log a warning
\* and return.
RejectReboot(S, c) ==
    End([S EXCEPT !.calls[c].result = "ignored",
                  !.calls[c].outcome = "returned"], c)

\* Fault model of the OFF leg: the cache is written without the range test.
OffLegEndUnguarded(S, c, outcome) ==
    LET outlet == S.calls[c].outlet
        S0 == [S EXCEPT !.calls[c].cause = outcome]
    IN  IF LegResult(outcome) = "ok"
        THEN [Log(Log(Log([S0 EXCEPT !.outletState = ArraySet(@, outlet, "false")],
                          c, "off_done"), c, "timer_set"), c, "return")
                 EXCEPT !.calls[c].phase = "WaitingDelay",
                        !.calls[c].timer = DelayMs(S.calls[c].arg),
                        !.calls[c].sinceOff = 0,
                        !.calls[c].outcome = "returned"]
        ELSE End([UnlockReboot(Log(S0, c, "off_failed"), outlet)
                     EXCEPT !.rebootInProgress = @ - 1,
                            !.calls[c].result = "offFailed",
                            !.calls[c].outcome = "threw"], c)

\* reboot_outlet callback after the OFF leg's get(): the optimistic cache
\* update, then setTimeout(..., delayMs) and return; or the catch block.
OffLegEnd(S, c, outcome) ==
    LET outlet == S.calls[c].outlet
        S0 == [S EXCEPT !.calls[c].cause = outcome]
    IN  IF LegResult(outcome) = "ok"
        THEN LET S1 == IF outlet >= 1 /\ outlet <= S.portCount
                       THEN [S0 EXCEPT !.outletState = ArraySet(@, outlet, "false")]
                       ELSE S0
             IN  [Log(Log(Log(S1, c, "off_done"), c, "timer_set"), c, "return")
                     EXCEPT !.calls[c].phase = "WaitingDelay",
                            !.calls[c].timer = DelayMs(S.calls[c].arg),
                            !.calls[c].sinceOff = 0,
                            !.calls[c].outcome = "returned"]
        ELSE End([UnlockReboot(Log(S0, c, "off_failed"), outlet)
                     EXCEPT !.rebootInProgress = @ - 1,
                            !.calls[c].result = "offFailed",
                            !.calls[c].outcome = "threw"], c)

\* Fault model of the catch block: no resetAgent().
RecoverAgentNever(S, c) == S

\* The catch block of the detached continuation: resetAgent().
RecoverAgent(S, c) == Log(ResetAgent(S), c, "reset_after_on_failure")

\* The detached continuation after the ON leg's get(): try / catch / finally.
OnLegEnd(S, c, outcome) ==
    LET outlet == S.calls[c].outlet
        S0 == [S EXCEPT !.calls[c].cause = outcome]
        S1 == IF LegResult(outcome) = "ok"
              THEN [(IF outlet >= 1 /\ outlet <= S.portCount
                     THEN [S0 EXCEPT !.outletState = ArraySet(@, outlet, "true")]
                     ELSE S0)
                       EXCEPT !.needsStatusRefresh = TRUE,
                              !.calls[c].result = "ok"]
              ELSE [RecoverAgent(S0, c) EXCEPT !.calls[c].result = "onFailed"]
    IN  End([UnlockReboot(Log(S1, c, "on_done"), outlet)
                EXCEPT !.rebootInProgress = @ - 1], c)

\* Fault model of the rebuild test: every successful poll rebuilds.
RebuildsAlways(S, body, failure) ==
    failure = "" /\ ParseStatusResponse(body).ok

\* refreshStatus() rebuilds the definitions of feedbacks, variables,
\* actions and presets: oldPortCount !== this.portCount after a decoded
\* reply.
Rebuilds(S, body, failure) ==
    /\ failure = ""
    /\ ParseStatusResponse(body).ok
    /\ S.portCount # ParseStatusResponse(body).portCount

\* refreshStatus() resumes after request r, its $A5, has settled; what the
\* poll ended with is noted in lastEnded.
PollDone(S, r) ==
    LET body == ReplyBody(r.outcome)
        failure == IF r.st = "failed" THEN r.outcome ELSE ""
        S1 == PollEnd(S, body, failure)
    IN  [S1 EXCEPT !.lastEnded = [op |-> "poll", outlet |-> 0, outcome |-> "",
                                  result |-> IF S1.status = "Ok" THEN "ok" ELSE "failed",
                                  cause |-> r.outcome,
                                  events |-> IF Rebuilds(S, body, failure)
                                             THEN <<"rebuild">> ELSE << >>]]

\* The reaction of the caller of get() to request i settling.
Continue(S, i) ==
    LET r == S.reqs[i]
    IN  CASE r.leg = "set" -> SetOutletEnd(S, r.call, r.outcome)
          [] r.leg = "off" -> OffLegEnd(S, r.call, r.outcome)
          [] r.leg = "on" -> OnLegEnd(S, r.call, r.outcome)
          [] r.leg \in {"poll_tick", "poll_action"} -> PollDone(S, r)
          [] r.leg = "poll_config" -> StartPolling(PollDone(S, r))

\* The promise of request i settles: the queue promise settles first, so
\* the next queued request starts its exchange, and then the caller of
\* get() resumes.
Settle(S, i, st) ==
    LET S1 == Continue(StartReady([S EXCEPT !.reqs[i].st = st,
                                            !.delivered = Append(@, i)]), i)
    IN  [S1 EXCEPT !.reqs[i] = SettledReq]

\* The exchange of request i ends with `outcome`: the catch / finally of
\* run(), then _applyControlPace after a reply.
FinishRun(S, i, outcome) ==
    LET S1 == [S EXCEPT !.pending = @ - 1, !.reqs[i].outcome = outcome]
        S2 == IF outcome \in Failures /\ ShouldResetAgent(outcome)
              THEN ResetAgent(S1) ELSE S1
        pace == ControlPaceMs(S2, S.reqs[i].cmd)
    IN  IF outcome \in Failures THEN Settle(S2, i, "failed")
        ELSE IF pace > 0
             THEN [S2 EXCEPT !.reqs[i].st = "pacing",
                             !.reqs[i].timer = pace]
        ELSE Settle(S2, i, "ok")

(***************************************************************************)
(* Initial state: the instance as its constructor leaves it                *)
(* (src/main.js:44-66, src/http.js:21-29).                                 *)
(***************************************************************************)
\* this.config = {}: no host; Number(undefined) || d gives each default.
EmptyConfig == [host |-> "", controlPaceMs |-> 0, pollIntervalMs |-> 0]

Constructed ==
    /\ lifecycle = "constructed"
    /\ config = EmptyConfig
    /\ portCount = InitialPortCount
    /\ outletState = << >>
    /\ currentAmps = << >>
    /\ tempC = << >>
    /\ lastError = ""
    /\ status = "none"
    /\ pollTimer = FALSE
    /\ isPolling = FALSE
    /\ needsStatusRefresh = FALSE
    /\ rebootLocks = {}
    /\ rebootInProgress = 0
    /\ rebootingOutlets = {}
    /\ agent = 1
    /\ pending = 0
    /\ reqs = << >>
    /\ wire = << >>
    /\ delivered = << >>
    /\ calls = << >>
    /\ cfgUpdates = 0
    /\ lastEnded = [op |-> "", outlet |-> 0, outcome |-> "", result |-> "",
                    cause |-> "", events |-> << >>]
    /\ tickPolls = 0
    /\ refreshes = 0

\* The timeout selection of run() is examined on its own (SpecTimeout);
\* here no request's timeout has been worked out.
NoCodecCall ==
    /\ codecCall = [fn |-> "", arg |-> << >>]
    /\ codecResult = [done |-> FALSE]

Init ==
    /\ Constructed
    /\ timeoutMs = UndefinedValue
    /\ controlTimeoutMs = UndefinedValue
    /\ requestTimeoutMs = UndefinedValue
    /\ NoCodecCall


(***************************************************************************)
(* Actions: one per macrotask.                                             *)
(***************************************************************************)
\* Inputs the environment has given so far.
Ops == Len(calls) + cfgUpdates + tickPolls

\* init(config)
ModuleInit(cfg) ==
    /\ lifecycle = "constructed"
    /\ Becomes(StartPolling([ResetAgent(Cur) EXCEPT !.lifecycle = "running",
                                                    !.config = cfg,
                                                    !.status = "Ok",
                                                    !.lastError = ""]))

\* set_outlet callback
SetOutlet(outlet, state) ==
    /\ lifecycle = "running"
    /\ Ops < MaxOps
    /\ LET c == Len(calls) + 1
           S0 == [Cur EXCEPT !.calls = Append(@, NewCall("set_outlet", outlet, state))]
       IN  Becomes(
             IF ~ValidOutlet(outlet, S0.portCount)
             THEN End([S0 EXCEPT !.calls[c].result = "invalidOutlet",
                                 !.calls[c].outcome = "threw"], c)
             ELSE IF GetAccepts(S0)
             THEN Get([S0 EXCEPT !.calls[c].phase = "InFlight"],
                      [kw |-> "$A3", outlet |-> outlet, state |-> state], c, "set")
             ELSE SetOutletEnd(S0, c, NoHost))

\* Fault model of the toggle: the cached state is sent as it is.
ToggleNextSame(S, outlet) ==
    IF outlet \in 1..Len(S.outletState) /\ S.outletState[outlet] = "true" THEN 1 ELSE 0

\* const cur = instance.outletState?.[outlet - 1] ? 1 : 0; next = cur ? 0 : 1
\* (a slot that is missing, or past the end of the array, is falsy).
ToggleNext(S, outlet) ==
    IF outlet \in 1..Len(S.outletState) /\ S.outletState[outlet] = "true" THEN 0 ELSE 1

\* toggle_outlet callback up to its await; its try / catch and the line
\* after it are those of set_outlet.
ToggleOutlet(outlet) ==
    /\ lifecycle = "running"
    /\ Ops < MaxOps
    /\ LET c == Len(calls) + 1
           S0 == [Cur EXCEPT !.calls = Append(@, NewCall("toggle_outlet", outlet, 0))]
       IN  Becomes(
             IF ~ValidOutlet(outlet, S0.portCount)
             THEN End([S0 EXCEPT !.calls[c].result = "invalidOutlet",
                                 !.calls[c].outcome = "threw"], c)
             ELSE IF GetAccepts(S0)
             THEN Get([S0 EXCEPT !.calls[c].phase = "InFlight"],
                      [kw |-> "$A3", outlet |-> outlet,
                       state |-> ToggleNext(S0, outlet)], c, "set")
             ELSE SetOutletEnd(S0, c, NoHost))

\* set_all callback up to its await (no outlet, so no assertValidOutlet);
\* its try / catch and the line after it are those of set_outlet.
SetAll(state) ==
    /\ lifecycle = "running"
    /\ Ops < MaxOps
    /\ LET c == Len(calls) + 1
           S0 == [Cur EXCEPT !.calls = Append(@, NewCall("set_all", 0, state))]
       IN  Becomes(
             IF GetAccepts(S0)
             THEN Get([S0 EXCEPT !.calls[c].phase = "InFlight"],
                      [kw |-> "$A7", outlet |-> 0, state |-> state], c, "set")
             ELSE SetOutletEnd(S0, c, NoHost))

\* reboot_outlet callback up to its first suspension
RebootOutlet(outlet, rawDelay) ==
    /\ lifecycle = "running"
    /\ Ops < MaxOps
    /\ LET c == Len(calls) + 1
           S0 == [Cur EXCEPT !.calls = Append(@, NewCall("reboot_outlet", outlet, rawDelay))]
       IN  Becomes(
             IF ~ValidOutlet(outlet, S0.portCount)
             THEN End([S0 EXCEPT !.calls[c].result = "invalidOutlet",
                                 !.calls[c].outcome = "threw"], c)
             ELSE IF ~LockRebootFree(S0, outlet)
             THEN RejectReboot(S0, c)
             ELSE LET S1 == [LockReboot(S0, outlet)
                                EXCEPT !.rebootInProgress = @ + 1,
                                       !.calls[c].phase = "OffInFlight"]
                  IN  IF GetAccepts(S1)
                      THEN Get(Log(S1, c, "off_submit"),
                               [kw |-> "$A3", outlet |-> outlet, state |-> 0], c, "off")
                      ELSE OffLegEnd(S1, c, NoHost))

\* The setTimeout(..., delayMs) callback of reboot_outlet up to its await:
\* resetAgent() and the settle timer.
DelayElapsed(c) ==
    /\ c \in 1..Len(calls)
    /\ calls[c].phase = "WaitingDelay"
    /\ calls[c].timer = 0
    /\ Becomes([Log(ResetAgent(Cur), c, "reset")
                   EXCEPT !.calls[c].phase = "Settling",
                          !.calls[c].timer = SettleMs])

\* After the settle pause: the ON leg's get().
SettleElapsed(c) ==
    /\ c \in 1..Len(calls)
    /\ calls[c].phase = "Settling"
    /\ calls[c].timer = 0
    /\ Becomes(
         IF GetAccepts(Cur)
         THEN Get([Log(Cur, c, "on_submit")
                      EXCEPT !.calls[c].phase = "OnInFlight"],
                  [kw |-> "$A3", outlet |-> calls[c].outlet, state |-> 1], c, "on")
         ELSE OnLegEnd(Cur, c, NoHost))

\* The ways the exchange of request i can end.
Outcomes(S, i) ==
    IF TornDown(S, i) THEN {"ECONNRESET"}
    ELSE IF S.reqs[i].cmd.kw = "$A5" THEN StatusReplies \cup Failures
    ELSE ControlReplies \cup Failures

\* A network event ends the exchange of request i.
EndExchange(i, outcome) ==
    /\ i \in 1..Len(reqs)
    /\ reqs[i].st = "inflight"
    /\ outcome \in Outcomes(Cur, i)
    /\ Becomes(FinishRun(Cur, i, outcome))

\* The sleep(paceMs) of _applyControlPace ends.
PaceDone(i) ==
    /\ i \in 1..Len(reqs)
    /\ reqs[i].st = "pacing"
    /\ reqs[i].timer = 0
    /\ Becomes(Settle(Cur, i, "ok"))

\* Fault model of the tick guards: a tick that always polls.
TickSkipsNever(S) == FALSE

\* Fault model of the tick guards: the pending count is not looked at.
TickSkipsIgnoresPending(S) == S.rebootInProgress > 0 \/ S.isPolling

\* Fault model of the tick guards: a requested refresh holds the tick back.
TickSkipsFlagged(S) ==
    S.rebootInProgress > 0 \/ S.pending > 0 \/ S.isPolling \/ S.needsStatusRefresh

\* The three early returns of the setInterval callback.
TickSkips(S) == S.rebootInProgress > 0 \/ S.pending > 0 \/ S.isPolling

\* Fault model of the tick: a requested refresh only clears its flag.
TickPollUnlessFlagged(S) ==
    IF S.needsStatusRefresh THEN [S EXCEPT !.needsStatusRefresh = FALSE]
    ELSE RefreshStatus([S EXCEPT !.tickPolls = @ + 1], "poll_tick")

\* The rest of the setInterval callback: clear the refresh flag if it is
\* set, and call refreshStatus() in either case.
TickPoll(S) ==
    RefreshStatus([S EXCEPT !.needsStatusRefresh = FALSE,
                            !.tickPolls = @ + 1], "poll_tick")

\* The setInterval callback of startPolling()
PollTick ==
    /\ pollTimer
    /\ Ops < MaxOps
    /\ Becomes(
         IF TickSkips(Cur) THEN Cur ELSE TickPoll(Cur))

\* refresh_status callback up to its first suspension
RefreshStatusAction ==
    /\ lifecycle = "running"
    /\ refreshes < MaxRefreshes
    /\ Becomes(RefreshStatus([Cur EXCEPT !.refreshes = @ + 1], "poll_action"))

\* configUpdated(config)
ConfigUpdated(cfg) ==
    /\ lifecycle = "running"
    /\ Ops < MaxOps
    /\ LET S0 == ResetAgent(StopPolling([Cur EXCEPT !.config = cfg,
                                                    !.cfgUpdates = @ + 1]))
       IN  Becomes(IF RefreshSubmits(S0)
                   THEN RefreshStatus(S0, "poll_config")
                   ELSE StartPolling(RefreshStatus(S0, "poll_config")))

\* The calls and requests holding an armed timer.
TimedCalls == {c \in 1..Len(calls) : calls[c].phase \in {"WaitingDelay", "Settling"}}
PacedReqs == {i \in 1..Len(reqs) : reqs[i].st = "pacing"}

Monus(a, b) == IF a > b THEN a - b ELSE 0

\* dt milliseconds pass: every armed timer comes dt closer to being due,
\* and every reboot past its OFF leg has waited dt longer (counted up to
\* the longest wait the sequence asks for).
Elapse(S, dt) ==
    [S EXCEPT
       !.calls = [c \in 1..Len(S.calls) |->
                    IF S.calls[c].phase \in {"WaitingDelay", "Settling"}
                    THEN [S.calls[c] EXCEPT
                            !.timer = Monus(@, dt),
                            !.sinceOff =
                                IF @ + dt > DelayMs(S.calls[c].arg) + SettleMs
                                THEN DelayMs(S.calls[c].arg) + SettleMs
                                ELSE @ + dt]
                    ELSE S.calls[c]],
       !.reqs = [i \in 1..Len(S.reqs) |->
                    IF S.reqs[i].st = "pacing"
                    THEN [S.reqs[i] EXCEPT !.timer = Monus(@, dt)]
                    ELSE S.reqs[i]]]

\* Time passes, up to the moment some armed timer becomes due.
Advance ==
    \E dt \in {calls[c].timer : c \in TimedCalls} \cup {reqs[i].timer : i \in PacedReqs} :
        /\ dt > 0
        /\ Becomes(Elapse(Cur, dt))

Next ==
    \/ \E cfg \in ConfigChoices : ModuleInit(cfg)
    \/ \E o \in ActionOutlets, st \in SetStates : SetOutlet(o, st)
    \/ \E o \in ActionOutlets, d \in RebootDelays : RebootOutlet(o, d)
    \/ \E c \in 1..Len(calls) : DelayElapsed(c)
    \/ \E c \in 1..Len(calls) : SettleElapsed(c)
    \/ \E i \in 1..Len(reqs), o \in ControlReplies \cup StatusReplies \cup Failures :
          EndExchange(i, o)
    \/ \E i \in 1..Len(reqs) : PaceDone(i)
    \/ PollTick
    \/ \E cfg \in ConfigChoices : ConfigUpdated(cfg)
    \/ Advance

Spec == Init /\ [][Next]_vars

\* The same machine with the refresh_status action as one more input.
NextPoll == Next \/ RefreshStatusAction

SpecPoll == Init /\ [][NextPoll]_vars

(***************************************************************************)
(* The poll interval on its own: init() is given a valid host and a poll   *)
(* interval that is negative, zero or positive; then the timer ticks,      *)
(* outlets are set and exchanges end.                                      *)
(***************************************************************************)
IntervalChoices == {-1000, 0, 2000}

IntervalConfigs ==
    [host : Hosts \ {""}, controlPaceMs : {0}, pollIntervalMs : IntervalChoices]

NextInterval ==
    \/ \E cfg \in IntervalConfigs : ModuleInit(cfg)
    \/ \E o \in ActionOutlets, st \in SetStates : SetOutlet(o, st)
    \/ \E i \in 1..Len(reqs), o \in ControlReplies \cup StatusReplies \cup Failures :
          EndExchange(i, o)
    \/ PollTick

SpecInterval == Init /\ [][NextInterval]_vars

(***************************************************************************)
(* The reboot delay on its own: init() is given a valid host with no       *)
(* pacing and no polling; then outlets are rebooted with a delayMs option  *)
(* that is negative, zero or positive, exchanges end and time passes.      *)
(***************************************************************************)
DelayChoices == {-100, 0, 100}

DelayConfigs ==
    [host : Hosts \ {""}, controlPaceMs : {0}, pollIntervalMs : {-1000}]

NextDelay ==
    \/ \E cfg \in DelayConfigs : ModuleInit(cfg)
    \/ \E o \in ActionOutlets, d \in DelayChoices : RebootOutlet(o, d)
    \/ \E c \in 1..Len(calls) : DelayElapsed(c)
    \/ \E c \in 1..Len(calls) : SettleElapsed(c)
    \/ \E i \in 1..Len(reqs), o \in ControlReplies \cup Failures : EndExchange(i, o)
    \/ Advance

SpecDelay == Init /\ [][NextDelay]_vars

(***************************************************************************)
(* The four control actions together: outlets are set, toggled, set all at *)
(* once and rebooted, for an outlet number that is below the range, inside *)
(* it, or inside it only while five outlets are cached; the timer ticks,   *)
(* exchanges end and time passes.                                          *)
(***************************************************************************)
ControlOutlets == {0, 2, 5}

ControlConfigs ==
    [host : Hosts, controlPaceMs : {0}, pollIntervalMs : PollIntervals]

NextControl ==
    \/ \E cfg \in ControlConfigs : ModuleInit(cfg)
    \/ \E o \in ControlOutlets, st \in SetStates : SetOutlet(o, st)
    \/ \E o \in ControlOutlets : ToggleOutlet(o)
    \/ \E st \in SetStates : SetAll(st)
    \/ \E o \in ControlOutlets, d \in RebootDelays : RebootOutlet(o, d)
    \/ \E c \in 1..Len(calls) : DelayElapsed(c)
    \/ \E c \in 1..Len(calls) : SettleElapsed(c)
    \/ \E i \in 1..Len(reqs), o \in ControlReplies \cup StatusReplies \cup Failures :
          EndExchange(i, o)
    \/ PollTick
    \/ Advance

SpecControl == Init /\ [][NextControl]_vars

(***************************************************************************)
(* The timeout selection on its own: get() is called with every            *)
(* combination of a timeoutMs option and a configured control timeout, and *)
(* run() works out the timeout of the request.                             *)
(***************************************************************************)
TimeoutOverrides ==
    {UndefinedValue} \cup {Num(n) : n \in {0, 100, 249, 250, 251, 3000, 30000}}

ConfiguredTimeouts ==
    {UndefinedValue} \cup {Num(n) : n \in {0, 100, 249, 250, 500, 5000, 20000, 60000}}

InitTimeout ==
    /\ Constructed
    /\ timeoutMs \in TimeoutOverrides
    /\ controlTimeoutMs \in ConfiguredTimeouts
    /\ requestTimeoutMs = UndefinedValue
    /\ NoCodecCall

SelectTimeout ==
    /\ requestTimeoutMs = UndefinedValue
    /\ requestTimeoutMs' = RequestTimeoutMs(timeoutMs, controlTimeoutMs)
    /\ UNCHANGED <<lifecycle, config, portCount, outletState, currentAmps, tempC,
                   lastError, status, pollTimer, isPolling, needsStatusRefresh,
                   rebootLocks, rebootInProgress, rebootingOutlets, agent, pending,
                   reqs, wire, delivered, calls, lastEnded, cfgUpdates,
                   tickPolls, refreshes, timeoutMs, controlTimeoutMs,
                   codecCall, codecResult>>

NextTimeout == SelectTimeout

SpecTimeout == InitTimeout /\ [][NextTimeout]_vars

(***************************************************************************)
(* The pure functions on their own: a function is called with an argument  *)
(* drawn from a bounded set of texts and returns or throws.                *)
(***************************************************************************)
MaxBits == 6

\* All texts over `alphabet` of length 0..n.
RECURSIVE Texts(_, _)
Texts(alphabet, n) ==
    IF n = 0 THEN {<< >>}
    ELSE LET shorter == Texts(alphabet, n - 1)
         IN  shorter \cup {Append(t, c) : t \in {u \in shorter : Len(u) = n - 1},
                                          c \in alphabet}

\* Replies to $A5: an optional prefix, a first field of bits and stray
\* characters, and the fields after it.
StatusPrefixes ==
    {<< >>, <<"$", "A", "0", ",">>, <<"$", "A", "0">>, <<"$", "A", "0", "x", ",">>,
     <<" ">>, <<"0", ",">>}
StatusTails ==
    {<< >>, <<",", "3", ",", "2", "5">>, <<",", "1">>, <<" ">>,
     <<",", ",">>, <<",", "x", ",", "7">>}
StatusTexts ==
    {p \o f \o t : p \in StatusPrefixes, f \in Texts({"0", "1", "x"}, MaxBits),
                   t \in StatusTails}

\* Commands: texts of the characters commands are made of, with + and %.
MaxCmdLen == 5
CmdTexts == Texts({"$", "A", "1", " ", "+", "%"}, MaxCmdLen)

\* Replies to a control command.
MaxReplyLen == 4
ReplyTexts == Texts({"$", "A", "0", "F", " "}, MaxReplyLen)

\* The bit strings parseStatusResponse accepts.
BitStrings == {b \in Texts({"0", "1"}, 5) : Len(b) \in {2, 5}}

CodecCalls ==
    [fn : {"parseStatusResponse"}, arg : StatusTexts]
    \cup [fn : {"normalizeCmd"}, arg : CmdTexts]
    \cup [fn : {"assertActionOk"}, arg : ReplyTexts]
    \cup [fn : {"updateVariablesFromState"}, arg : BitStrings]

InitCodec ==
    /\ Constructed
    /\ timeoutMs = UndefinedValue
    /\ controlTimeoutMs = UndefinedValue
    /\ requestTimeoutMs = UndefinedValue
    /\ codecCall \in CodecCalls
    /\ codecResult = [done |-> FALSE]

\* The called function runs; everything else is left alone.
Returns(value) ==
    /\ ~codecResult.done
    /\ codecResult' = [done |-> TRUE, value |-> value]
    /\ UNCHANGED <<lifecycle, config, portCount, outletState, currentAmps, tempC,
                   lastError, status, pollTimer, isPolling, needsStatusRefresh,
                   rebootLocks, rebootInProgress, rebootingOutlets, agent, pending,
                   reqs, wire, delivered, calls, lastEnded, cfgUpdates,
                   tickPolls, refreshes, timeoutMs, controlTimeoutMs,
                   requestTimeoutMs, codecCall>>

ParseStatus ==
    /\ codecCall.fn = "parseStatusResponse"
    /\ Returns(ParseStatusResponse(codecCall.arg))

EncodeCommand ==
    /\ codecCall.fn = "normalizeCmd"
    /\ Returns(NormalizeCmd(codecCall.arg))

ClassifyReply ==
    /\ codecCall.fn = "assertActionOk"
    /\ Returns([class |-> AssertActionOk(codecCall.arg),
                threw |-> AssertActionOk(codecCall.arg) # "ok",
                message |-> ActionErrorMessage(codecCall.arg)])

\* A poll decodes the bit string into the cache (src/main.js:282-287)
\* and updateVariablesFromState publishes the cache.
RenderDecoded ==
    /\ codecCall.fn = "updateVariablesFromState"
    /\ LET decoded == ParseStatusResponse(codecCall.arg)
       IN  Returns(OutletsBits(decoded.portCount, decoded.outlets))

NextCodec ==
    \/ ParseStatus
    \/ EncodeCommand
    \/ ClassifyReply
    \/ RenderDecoded

SpecCodec == InitCodec /\ [][NextCodec]_vars

\* No more requests than this are ever made (at most two per input: the
\* OFF and ON legs of a reboot), and no more invocations than this.
RequestIds == 1..(2 * MaxOps)
CallIds == 1..MaxOps

\* The exchange of request i is running; the pace timer of request i is
\* armed; a timer of the reboot continuation of invocation c is armed.
ExchangeRuns(i) == Len(reqs) >= i /\ reqs[i].st = "inflight"
PaceArmed(i) == Len(reqs) >= i /\ reqs[i].st = "pacing"
TimerArmed(c) == Len(calls) >= c /\ calls[c].phase \in {"WaitingDelay", "Settling"}

\* The same machine under the scheduling the runtime guarantees: every
\* exchange ends (reply, error, or the timeout armed at src/http.js:117-152),
\* and every armed timer becomes due and runs its callback.  Each conjunct
\* is what weak fairness of EndExchange, of PaceDone and Advance, and of
\* DelayElapsed, SettleElapsed and Advance yields: these actions are
\* enabled throughout the condition named and are the only ones ending it.
Fairness ==
    /\ \A i \in RequestIds : []<>~ExchangeRuns(i)
    /\ \A i \in RequestIds : []<>~PaceArmed(i)
    /\ \A c \in CallIds : []<>~TimerArmed(c)

SpecLive == Spec /\ Fairness

(***************************************************************************)
(* The consumption of the refresh flag: the machine is started with a      *)
(* host and an armed poll timer, outlets are set and rebooted, and the     *)
(* timer keeps ticking for as long as a refresh is asked for (the number   *)
(* of other ticks is bounded like the other inputs).                       *)
(***************************************************************************)
RefreshConfigs ==
    [host : Hosts \ {""}, controlPaceMs : PaceValues, pollIntervalMs : PollIntervals]

\* The setInterval callback of startPolling()
RefreshTick ==
    /\ pollTimer
    /\ needsStatusRefresh \/ Ops < MaxOps
    /\ Becomes(
         IF TickSkips(Cur) THEN Cur ELSE TickPoll(Cur))

NextRefresh ==
    \/ \E cfg \in RefreshConfigs : ModuleInit(cfg)
    \/ \E o \in ActionOutlets, st \in SetStates : SetOutlet(o, st)
    \/ \E o \in ActionOutlets, d \in RebootDelays : RebootOutlet(o, d)
    \/ \E c \in 1..Len(calls) : DelayElapsed(c)
    \/ \E c \in 1..Len(calls) : SettleElapsed(c)
    \/ \E i \in 1..Len(reqs), o \in ControlReplies \cup StatusReplies \cup Failures :
          EndExchange(i, o)
    \/ \E i \in 1..Len(reqs) : PaceDone(i)
    \/ RefreshTick
    \/ Advance

\* At most two requests per action and one poll per refresh asked for.
RefreshRequestIds == 1..(3 * MaxOps)

\* A tick would poll for the refresh that is asked for.
TickDue == pollTimer /\ needsStatusRefresh /\ ~TickSkips(Cur)

\* The scheduling of SpecLive, and the interval timer: setInterval keeps
\* calling back, so a due tick does not stay due for ever (weak fairness of
\* RefreshTick where it polls: the poll itself ends the condition).
FairnessRefresh ==
    /\ \A i \in RefreshRequestIds : []<>~ExchangeRuns(i)
    /\ \A i \in RefreshRequestIds : []<>~PaceArmed(i)
    /\ \A c \in CallIds : []<>~TimerArmed(c)
    /\ []<>~TickDue

SpecRefresh == Init /\ [][NextRefresh]_vars /\ FairnessRefresh

(***************************************************************************)
(* Properties.                                                             *)
(***************************************************************************)
\* Requests are numbered in the order of the get() calls that made them.
Requests == 1..Len(reqs)
InFlight == {i \in Requests : reqs[i].st = "inflight"}
Queued == {i \in Requests : reqs[i].st = "queued"}

\* The phases of a reboot sequence that is not Idle.
ActivePhases == {"OffInFlight", "WaitingDelay", "Settling", "OnInFlight"}
Sequences(o) ==
    {c \in 1..Len(calls) : /\ calls[c].op = "reboot_outlet"
                           /\ calls[c].outlet = o
                           /\ calls[c].phase \in ActivePhases}
ActiveSequences == UNION {Sequences(o) : o \in ActionOutlets}

\* C1: at most one HTTP exchange is in flight at any time, the in-flight
\* counter never exceeds 1, and an exchange runs only when the exchange of
\* every earlier-submitted request has finished.
SingleFlight ==
    /\ Cardinality(InFlight) <= 1
    /\ pending <= 1
    /\ \A i \in InFlight : \A j \in 1..(i - 1) : reqs[j].st \notin {"queued", "inflight"}

\* One exchange in flight while a request submitted later waits behind it.
SingleFlightWitness ==
    /\ Cardinality(InFlight) = 1
    /\ pending = 1
    /\ Queued # {}
    /\ \A i \in Queued : reqs[i].waited /\ \E j \in InFlight : j < i

\* C2: exchanges start in the order of the get() calls, and replies or
\* errors are delivered to the callers in that same order.
InOrder(s) == \A k \in 1..Len(s) : s[k] = k
FifoOrder == InOrder(wire) /\ InOrder(delivered)

\* The first request delivered, the second (which had to wait) on the wire,
\* a third still queued.
FifoWitness ==
    /\ Len(reqs) >= 3
    /\ delivered = <<1>>
    /\ wire = <<1, 2>>
    /\ reqs[2].st = "inflight" /\ reqs[2].waited
    /\ reqs[3].st = "queued"

\* C3: every request accepted by get() eventually completes, whether or
\* not the requests before it failed (each exchange ends, by Fairness).
EveryRequestSettles ==
    \A i \in RequestIds :
        (Len(reqs) >= i) ~> (Len(reqs) >= i /\ reqs[i].st = "settled")

\* A request that waited in the queue runs after the reboot OFF leg before
\* it failed with a transport error.
RunsAfterFailureWitness ==
    /\ lastEnded.result = "offFailed"
    /\ lastEnded.cause \in Failures
    /\ \E i \in InFlight : reqs[i].waited /\ reqs[i].leg = "set"

\* C4: no exchange in flight has its connection torn down by another
\* actor: the Agent it runs on is still the client's Agent.
NoTeardownMidFlight == \A i \in Requests : ~TornDown(Cur, i)

\* C5: at most one reboot sequence per outlet is active, and an outlet's
\* ticket is held exactly while a sequence for it is active.
OneSequencePerOutlet ==
    \A o \in ActionOutlets :
        /\ Cardinality(Sequences(o)) <= 1
        /\ o \in rebootLocks <=> Sequences(o) # {}

\* A second reboot was asked for an outlet whose sequence is in its delay.
SecondRebootWitness ==
    \E o \in ActionOutlets :
        /\ \E c \in Sequences(o) : calls[c].phase = "WaitingDelay"
        /\ lastEnded.op = "reboot_outlet"
        /\ lastEnded.outlet = o
        /\ lastEnded.result = "ignored"

\* This step is an invocation of reboot_outlet for outlet o.
RebootCalledOn(o) ==
    /\ Len(calls') = Len(calls) + 1
    /\ LET n == Len(calls')
       IN  IF calls'[n].phase = "Ended"
           THEN lastEnded'.op = "reboot_outlet" /\ lastEnded'.outlet = o
           ELSE calls'[n].op = "reboot_outlet" /\ calls'[n].outlet = o

\* A reboot asked for a valid outlet whose ticket is held ends at once with
\* `outcome` for its caller; nothing is queued, no command is sent, and the
\* ticket and the sequence count are unchanged.
HeldTicketCall(outcome) ==
    \A o \in ActionOutlets :
        (o \in rebootLocks /\ ValidOutlet(o, portCount) /\ RebootCalledOn(o))
        => /\ calls'[Len(calls')].phase = "Ended"
           /\ lastEnded'.outcome = outcome
           /\ UNCHANGED <<rebootLocks, rebootInProgress, rebootingOutlets,
                          reqs, wire, pending, agent>>

\* C6 (as the code behaves): a reboot asked for a valid outlet whose ticket
\* is held returns at once to its caller WITHOUT an error (a warning is
\* logged); it is not queued, no command is sent, and the ticket and the
\* sequence count are unchanged.
RejectedRebootReturns == [][HeldTicketCall("returned")]_vars

\* C6 (as stated): a reboot asked for an outlet whose ticket is held fails
\* at once with an error returned to its caller; it is not queued, no
\* command is sent, and the ticket and the sequence count are unchanged.
RejectedRebootRaises == [][HeldTicketCall("threw")]_vars

\* A reboot was rejected while the OFF leg of the running sequence for the
\* same outlet is still in flight.
RejectedRebootWitness ==
    /\ lastEnded.op = "reboot_outlet"
    /\ lastEnded.result = "ignored"
    /\ \E c \in Sequences(lastEnded.outlet) : calls[c].phase = "OffInFlight"

\* What a reboot sequence has done by the time it is in each phase.
OffSubmitted == <<"off_submit">>
OffDone == OffSubmitted \o <<"off_done", "timer_set", "return">>
DelayOver == OffDone \o <<"reset">>
OnSubmitted == DelayOver \o <<"on_submit">>
LegRequests(c, leg) ==
    {i \in Requests : reqs[i].call = c /\ reqs[i].leg = leg /\ reqs[i].st # "settled"}

\* C7: an accepted reboot submits OFF at once; its caller has returned
\* when OFF has succeeded and none of the delay has passed; ON is submitted
\* only when at least the requested delay has passed since OFF completed;
\* and the connection is reset after OFF completed and before ON is
\* submitted.
RebootOrdering ==
    \A c \in 1..Len(calls) :
        LET k == calls[c]
        IN  /\ k.phase = "OffInFlight" =>
                 /\ k.events = OffSubmitted
                 /\ k.outcome = "pending"
                 /\ Cardinality(LegRequests(c, "off")) = 1
                 /\ LegRequests(c, "on") = {}
            /\ k.phase = "WaitingDelay" =>
                 /\ k.events = OffDone
                 /\ k.outcome = "returned"
                 /\ k.cause = "A0"
                 /\ LegRequests(c, "on") = {}
            /\ k.phase = "Settling" =>
                 /\ k.events = DelayOver
                 /\ k.outcome = "returned"
                 /\ k.sinceOff >= k.arg
                 /\ LegRequests(c, "on") = {}
            /\ k.phase = "OnInFlight" =>
                 /\ k.events = OnSubmitted
                 /\ k.outcome = "returned"
                 /\ k.sinceOff >= k.arg
                 /\ Cardinality(LegRequests(c, "on")) = 1

\* The ON leg of a reboot with a non-zero delay is on the wire.
OnLegWitness ==
    \E c \in 1..Len(calls) :
        /\ calls[c].phase = "OnInFlight"
        /\ calls[c].arg > 0
        /\ \E i \in InFlight : reqs[i].call = c /\ reqs[i].leg = "on"

\* The reply or error that ended the leg of call c in this step.
LegOutcomeAfter(c) ==
    IF calls'[c].phase = "Ended" THEN lastEnded'.cause ELSE calls'[c].cause

\* C8: when the OFF leg fails (transport error, $AF reply, unrecognised
\* reply, or no host to send to), the ticket is released, the sequence
\* count is decremented, the error is raised to the caller, and no ON
\* command is submitted for that sequence.
OffFailureReleases ==
    [][/\ \A c \in 1..Len(calls) :
            (calls[c].phase = "OffInFlight" /\ calls'[c].phase # "OffInFlight"
             /\ LegOutcomeAfter(c) # "A0")
            => /\ calls'[c].phase = "Ended"
               /\ lastEnded'.op = "reboot_outlet"
               /\ lastEnded'.outcome = "threw"
               /\ rebootLocks' = rebootLocks \ {calls[c].outlet}
               /\ rebootInProgress' = rebootInProgress - 1
               /\ "on_submit" \notin {lastEnded'.events[k] : k \in 1..Len(lastEnded'.events)}
               /\ \A i \in 1..Len(reqs') : reqs'[i].call # c
       /\ \A o \in ActionOutlets :
            (config.host = "" /\ o \notin rebootLocks /\ ValidOutlet(o, portCount)
             /\ RebootCalledOn(o))
            => /\ calls'[Len(calls')].phase = "Ended"
               /\ lastEnded'.outcome = "threw"
               /\ o \notin rebootLocks'
               /\ UNCHANGED <<rebootInProgress, reqs>>
      ]_vars

\* A sequence ended because the device answered its OFF command with $AF.
OffFailureWitness ==
    /\ lastEnded.op = "reboot_outlet"
    /\ lastEnded.result = "offFailed"
    /\ lastEnded.cause = "AF"
    /\ lastEnded.outcome = "threw"

\* C9: when the ON leg fails, the connection is reset again, the error is
\* not raised to the caller (who returned when OFF succeeded), the ticket
\* is released and the sequence count is decremented.
OnFailureRecovers ==
    [][\A c \in 1..Len(calls) :
            (calls[c].phase \in {"Settling", "OnInFlight"} /\ calls'[c].phase = "Ended"
             /\ lastEnded'.cause # "A0")
            => /\ lastEnded'.outcome = "returned"
               /\ Len(lastEnded'.events) >= 2
               /\ SubSeq(lastEnded'.events, Len(lastEnded'.events) - 1,
                         Len(lastEnded'.events)) = <<"reset_after_on_failure", "on_done">>
               /\ rebootLocks' = rebootLocks \ {calls[c].outlet}
               /\ rebootInProgress' = rebootInProgress - 1
      ]_vars

\* A sequence ended after its ON command, sent on time, met a timeout.
OnFailureWitness ==
    /\ lastEnded.result = "onFailed"
    /\ lastEnded.cause = "timeout"
    /\ lastEnded.events = OnSubmitted \o <<"reset_after_on_failure", "on_done">>

\* C10: every accepted reboot eventually returns to Idle with its ticket
\* released, and the sequence count is the number of active sequences (so
\* each sequence is counted down exactly once).
RebootReturnsToIdle ==
    /\ [](rebootInProgress = Cardinality(ActiveSequences))
    /\ \A c \in CallIds, o \in ActionOutlets :
          (Len(calls) >= c /\ calls[c].phase \in ActivePhases /\ calls[c].outlet = o)
          ~> (Len(calls) >= c /\ calls[c].phase = "Ended" /\ o \notin rebootLocks)

\* A reboot ran to its end and left no ticket and no count behind.
IdleAgainWitness ==
    /\ lastEnded.op = "reboot_outlet"
    /\ lastEnded.result = "ok"
    /\ rebootLocks = {}
    /\ rebootInProgress = 0
    /\ ActiveSequences = {}


\* C11: while a ticket is held for one outlet, a reboot asked for another
\* (valid, free) outlet is accepted: it takes its own ticket, is counted,
\* and queues its OFF command without touching the running sequence; and
\* sequences that overlap all come to their end.
OtherOutletAccepted ==
    /\ [][\A o \in ActionOutlets :
            (/\ RebootCalledOn(o)
             /\ rebootLocks # {}
             /\ o \notin rebootLocks
             /\ ValidOutlet(o, portCount)
             /\ config.host # "")
            => LET n == Len(calls')
                   k == Len(reqs')
               IN  /\ calls'[n].phase = "OffInFlight"
                   /\ rebootLocks' = rebootLocks \cup {o}
                   /\ rebootInProgress' = rebootInProgress + 1
                   /\ k = Len(reqs) + 1
                   /\ reqs'[k].leg = "off" /\ reqs'[k].call = n
                   /\ reqs'[k].cmd = [kw |-> "$A3", outlet |-> o, state |-> 0]
                   /\ \A c \in 1..Len(calls) : calls'[c] = calls[c]
         ]_vars
    /\ (Cardinality(ActiveSequences) >= 2) ~> (ActiveSequences = {})

\* Two sequences overlap: outlet 1 is in its delay while the OFF command
\* of outlet 2 is on the wire.
OverlapWitness ==
    /\ \E c \in Sequences(1) : calls[c].phase = "WaitingDelay"
    /\ \E c \in Sequences(2) :
          /\ calls[c].phase = "OffInFlight"
          /\ \E i \in InFlight : reqs[i].call = c /\ reqs[i].leg = "off"
    /\ rebootInProgress = 2

IdleTickPolls ==
    [][(PollTick /\ rebootInProgress = 0 /\ pending = 0 /\ ~isPolling)
       => LET k == Len(reqs')
          IN  /\ k = Len(reqs) + 1
              /\ reqs'[k].cmd.kw = "$A5"
              /\ reqs'[k].leg = "poll_tick"
              /\ \A i \in 1..Len(reqs) : reqs'[i] = reqs[i]
              /\ tickPolls' = tickPolls + 1
              /\ isPolling'
              /\ ~needsStatusRefresh'
      ]_vars

\* A tick polled after a successful set_outlet had asked for a refresh:
\* the poll is on the wire and the flag is clear again.
FlaggedTickWitness ==
    /\ tickPolls = 1
    /\ lastEnded.op = "set_outlet" /\ lastEnded.result = "ok"
    /\ ~needsStatusRefresh
    /\ \E i \in InFlight : reqs[i].leg = "poll_tick" /\ ~reqs[i].waited

\* Status polls that were submitted and whose reply has not been handled.
PollLegs == {"poll_tick", "poll_action", "poll_config"}

OutstandingPolls ==
    {i \in Requests : reqs[i].leg \in PollLegs /\ reqs[i].st \notin Settled}

\* C14: polls never overlap: at most one status poll is outstanding at a
\* time, whatever triggers it and whatever configuration changes happen
\* while a poll is in flight.
PollsNeverOverlap == Cardinality(OutstandingPolls) <= 1

\* This step handles the reply (or the failure) of the status poll whose
\* request is i; lastEnded' then describes that poll.
PollHandled(i) ==
    /\ i <= Len(reqs)
    /\ reqs[i].st = "inflight"
    /\ reqs[i].leg \in PollLegs
    /\ reqs'[i].st = "settled"

GoodStatus == {"status2", "status5"}

\* C15: a successful poll replaces the cached snapshot (outlet count,
\* outlet states, current, temperature) as a whole with the decoded one,
\* clears last-error and marks connectivity Ok. (Where the poll was run by
\* configUpdated() and the host has been cleared meanwhile, the
\* startPolling() that follows in the same task reports the bad
\* configuration over the poll's result.)
PollSuccessReplaces ==
    [][\A i \in RequestIds :
          (PollHandled(i) /\ lastEnded'.cause \in GoodStatus)
          => LET decoded == ParseStatusResponse(ReplyBody(lastEnded'.cause))
             IN  /\ decoded.ok
                 /\ portCount' = decoded.portCount
                 /\ outletState' = decoded.outlets
                 /\ currentAmps' = decoded.currentAmps
                 /\ tempC' = decoded.tempC
                 /\ lastEnded'.result = "ok"
                 /\ IF reqs[i].leg = "poll_config" /\ config.host = ""
                    THEN lastError' = BadConfigMessage /\ status' = "BadConfig"
                    ELSE lastError' = "" /\ status' = "Ok"
      ]_vars

\* A two-outlet reply without telemetry was decoded after a five-outlet
\* reply with telemetry: nothing of the older snapshot is left.
SnapshotReplacedWitness ==
    /\ tickPolls = 2
    /\ lastEnded.op = "poll" /\ lastEnded.cause = "status2"
    /\ OutstandingPolls = {}
    /\ portCount = 2
    /\ outletState = <<"true", "false">>
    /\ currentAmps = << >> /\ tempC = << >>
    /\ lastError = "" /\ status = "Ok"

\* C16: a failed poll (transport error or parse error) records the error
\* message, marks connectivity failed and leaves the cached outlet count,
\* outlet states and telemetry exactly as they were. (Where the poll was
\* run by configUpdated() and the host has been cleared meanwhile, the
\* startPolling() that follows in the same task reports the bad
\* configuration over the poll's error.)
PollFailureKeepsCache ==
    [][\A i \in RequestIds :
          (PollHandled(i) /\ lastEnded'.cause \notin GoodStatus)
          => /\ UNCHANGED <<portCount, outletState, currentAmps, tempC>>
             /\ lastEnded'.result = "failed"
             /\ IF reqs[i].leg = "poll_config" /\ config.host = ""
                THEN lastError' = BadConfigMessage /\ status' = "BadConfig"
                ELSE /\ status' = "ConnectionFailure"
                     /\ lastError' = IF lastEnded'.cause = "status3"
                                     THEN "Unable to parse outlet bits from status"
                                     ELSE lastEnded'.cause
      ]_vars

\* A poll failed after an earlier poll had cached a five-outlet snapshot
\* with telemetry: the snapshot is still there next to the error.
FailedPollWitness ==
    /\ tickPolls = 2
    /\ lastEnded.op = "poll" /\ lastEnded.result = "failed"
    /\ OutstandingPolls = {}
    /\ status = "ConnectionFailure" /\ lastError # ""
    /\ portCount = 5 /\ currentAmps # << >> /\ tempC # << >>
    /\ Len(outletState) = 5

\* Requests that were submitted and whose promise has not settled: queued
\* behind another request, in flight, or held in the pacing delay.
Unsettled == {i \in Requests : reqs[i].st \notin Settled}

\* C17 as stated: the pending count is the number of requests queued or in
\* flight, so it is positive whenever a submitted request has not settled.
PendingCountsUnsettled ==
    /\ pending = Cardinality(Unsettled)
    /\ (Unsettled # {}) => pending > 0

\* C17, amended: the pending count is the number of requests whose exchange
\* with the device is running, which is 0 or 1; a request waiting behind
\* another request or behind a pacing delay is not counted.
PendingCountsInFlight ==
    /\ pending = Cardinality(InFlight)
    /\ pending \in {0, 1}
    /\ (pending > 0) <=> (InFlight # {})

\* A control command is held in its pacing delay with another request
\* queued behind it, and the pending count is 0.
PacedUncountedWitness ==
    /\ pending = 0
    /\ \E i, j \in Requests :
          /\ reqs[i].st = "pacing" /\ reqs[i].timer > 0
          /\ reqs[j].st = "queued" /\ reqs[j].prev = i

\* The exchange of request i ends in this step, with a reply or an error.
ExchangeEnds(i) ==
    /\ i <= Len(reqs)
    /\ reqs[i].st = "inflight"
    /\ reqs'[i].st # "inflight"

\* C18: when a request completes, the request queued behind it is held
\* back by the pacing delay if and only if the completed command is a
\* control command ($A3, $A4, $A7) and the pace is greater than 0, whether
\* the control command succeeded or failed; after $A5 it is never held.
PacedAfterControl ==
    [][\A i \in RequestIds :
          ExchangeEnds(i)
          => LET paced == IsControlCmd(reqs[i].cmd) /\ config.controlPaceMs > 0
             IN  \A j \in Requests :
                     (reqs[j].st = "queued" /\ reqs[j].prev = i)
                     => (paced <=> reqs'[j].st = "queued")
      ]_vars

\* C19: the effective timeout of a request is the caller's override when
\* the override is at least 250 ms, and otherwise the configured default
\* timeout, itself replaced by the fallback only when it is below 250 ms;
\* for every combination of override (absent, below 250, at least 250)
\* and configured default.
TimeoutAsSpecified ==
    requestTimeoutMs # UndefinedValue
    => requestTimeoutMs =
          IF timeoutMs.kind = "number" /\ timeoutMs.n >= 250 THEN timeoutMs
          ELSE IF controlTimeoutMs.kind = "number" /\ controlTimeoutMs.n >= 250
               THEN controlTimeoutMs
          ELSE Num(20000)

\* Requests whose exchange starts in this step.
StartsNow(j) ==
    /\ j <= Len(reqs')
    /\ reqs'[j].st = "inflight"
    /\ (j <= Len(reqs) => reqs[j].st = "queued")

\* C20: when a request fails with a connection reset (the error class of
\* reset, refused and broken pipe), the transport discards its Agent and
\* creates a fresh one before the next queued request starts: afterwards
\* the current Agent is not the one the failed exchange ran on, and a
\* request started in the same step runs on the fresh one. (After a failed
\* ON leg the reboot callback resets the Agent once more in the same step,
\* so there the Agent before the step is compared only with the Agent the
\* next request started on.)
ResetBeforeNextRequest ==
    [][\A i \in RequestIds :
          EndExchange(i, "ECONNRESET")
          => /\ agent' # reqs[i].agent
             /\ reqs[i].leg # "on" => agent' # agent
             /\ \A j \in RequestIds :
                   StartsNow(j) => /\ reqs'[j].agent # reqs[i].agent
                                   /\ reqs'[j].agent # agent
      ]_vars

\* A poll failed with a connection reset while a set_outlet was queued
\* behind it, and nothing else ever reset the Agent: the set_outlet is in
\* flight on the Agent created after the failure.
ResetThenNextWitness ==
    /\ cfgUpdates = 0
    /\ lastEnded.op = "poll" /\ lastEnded.cause = "ECONNRESET"
    /\ wire = <<1, 2>> /\ delivered = <<1>>
    /\ reqs[2].st = "inflight" /\ reqs[2].leg = "set" /\ reqs[2].waited
    /\ reqs[2].agent = agent

\* C21: with an empty host, get() fails at once with the configuration
\* error and enqueues nothing, leaving the pending count and the queue as
\* they were (for each caller of get(): set_outlet, the OFF leg and the ON
\* leg of a reboot, refreshStatus); startPolling starts no timer; and
\* refreshStatus submits no request and reports BadConfig with a non-empty
\* last-error message.
EmptyHostSubmitsNothing ==
    /\ [](config.host = "" => ~pollTimer)
    /\ [][config'.host = ""
          => /\ Len(calls') > Len(calls)
                => /\ UNCHANGED <<reqs, wire, pending, rebootLocks, rebootInProgress>>
                   /\ calls'[Len(calls')].phase = "Ended"
                   /\ \/ lastEnded'.result \in {"invalidOutlet", "ignored"}
                      \/ /\ lastEnded'.outcome = "threw"
                         /\ lastEnded'.result \in {"failed", "offFailed"}
                         /\ lastEnded'.op = "reboot_outlet" => lastEnded'.cause = NoHost
             /\ \A c \in CallIds :
                   (c <= Len(calls) /\ calls[c].phase = "Settling"
                    /\ calls'[c].phase # "Settling")
                   => /\ UNCHANGED <<reqs, wire, pending>>
                      /\ calls'[c].phase = "Ended"
                      /\ lastEnded'.result = "onFailed" /\ lastEnded'.cause = NoHost
             /\ cfgUpdates' # cfgUpdates
                => /\ UNCHANGED <<reqs, wire, pending>>
                   /\ status' = "BadConfig" /\ lastError' = BadConfigMessage
                   /\ ~isPolling' /\ ~pollTimer'
         ]_vars

\* The host was cleared by configUpdated() and a set_outlet was then
\* refused by get(): no request was ever made.
EmptyHostWitness ==
    /\ config.host = "" /\ cfgUpdates = 1
    /\ status = "BadConfig" /\ lastError # ""
    /\ lastEnded.op = "set_outlet" /\ lastEnded.outcome = "threw"
    /\ lastEnded.result = "failed"
    /\ reqs = << >> /\ pending = 0 /\ ~pollTimer

\* C22: a configured poll interval that is not positive (0 or negative)
\* disables polling entirely: startPolling starts no timer and no tick
\* ever submits a status query.
NonPositiveIntervalDisables ==
    (lifecycle = "running" /\ config.pollIntervalMs <= 0)
    => ~pollTimer /\ tickPolls = 0

\* C23: parseStatusResponse accepts a reply if and only if, after an
\* optional leading $A0 prefix is stripped up to the first comma and every
\* character other than 0 and 1 is deleted from the first comma-separated
\* field, the remaining bit string has length 2 or 5; otherwise it throws
\* and produces no snapshot.
ParseAcceptsTwoOrFiveBits ==
    (codecCall.fn = "parseStatusResponse" /\ codecResult.done)
    => LET text == Trim(codecCall.arg)
           comma == IndexOf(text, ",")
           prefixed == Len(text) >= 3 /\ text[1] = "$" /\ text[2] = "A" /\ text[3] = "0"
           stripped == IF ~prefixed THEN text
                       ELSE IF comma = 0 THEN << >>
                       ELSE SubSeq(text, comma + 1, Len(text))
           fieldEnd == IF IndexOf(stripped, ",") = 0 THEN Len(stripped)
                       ELSE IndexOf(stripped, ",") - 1
           bitString == SelectSeq(SubSeq(stripped, 1, fieldEnd),
                                  LAMBDA c : c = "0" \/ c = "1")
       IN  /\ codecResult.value.ok <=> Len(bitString) \in {2, 5}
           /\ codecResult.value.ok => codecResult.value.bits = bitString
           /\ ~codecResult.value.ok => DOMAIN codecResult.value = {"ok"}

\* A prefixed reply with stray characters among five bits was accepted,
\* and a reply with three bits was refused.
ParseAcceptedWitness ==
    /\ codecCall.fn = "parseStatusResponse" /\ codecResult.done
    /\ codecCall.arg = <<"$", "A", "0", ",", "1", "x", "0", "1", "0", "0">>
    /\ codecResult.value.ok /\ codecResult.value.portCount = 5

\* C24: for every accepted bit string of length n (2 or 5),
\* parseStatusResponse yields outlet count n and, for every outlet k in
\* 1..n, outlet k is ON exactly when the k-th character counted from the
\* right of the bit string is 1 (the right-most bit is outlet 1, the first
\* element of the state sequence).
RightmostBitIsOutletOne ==
    (codecCall.fn = "parseStatusResponse" /\ codecResult.done /\ codecResult.value.ok)
    => LET r == codecResult.value
           n == Len(r.bits)
       IN  /\ n \in {2, 5}
           /\ r.portCount = n
           /\ Len(r.outlets) = n
           /\ \A k \in 1..n :
                 /\ r.outlets[k] \in {"true", "false"}
                 /\ (r.outlets[k] = "true") <=> (r.bits[n + 1 - k] = "1")
           /\ (\A j \in 1..Len(codecCall.arg) : codecCall.arg[j] \in {"0", "1"})
              => /\ r.bits = codecCall.arg
                 /\ \A k \in 1..n :
                       (r.outlets[k] = "true")
                       <=> (codecCall.arg[Len(codecCall.arg) + 1 - k] = "1")

\* The reply 10100 was decoded: outlets 3 and 5 are ON, outlet 1 is OFF.
RightmostBitWitness ==
    /\ codecCall = [fn |-> "parseStatusResponse", arg |-> <<"1", "0", "1", "0", "0">>]
    /\ codecResult.done /\ codecResult.value.ok
    /\ codecResult.value.portCount = 5
    /\ codecResult.value.outlets = <<"false", "false", "true", "false", "true">>

\* The maximal runs of non-space characters of a text, in order.
RECURSIVE Words(_)
Words(s) ==
    LET t == TrimLeft(s)
        sp == IndexOf(t, " ")
    IN  IF t = << >> THEN << >>
        ELSE IF sp = 0 THEN <<t>>
        ELSE <<SubSeq(t, 1, sp - 1)>> \o Words(SubSeq(t, sp, Len(t)))

\* C25: normalizeCmd percent-encodes nothing and turns every run of one or
\* more spaces inside the command into exactly one +, leaving every other
\* character unchanged; for a command of letters, digits, $ and spaces,
\* replacing each + by a space gives back the input with leading and
\* trailing spaces removed and inner space runs collapsed.
EncodeKeepsAllButSpaces ==
    (codecCall.fn = "normalizeCmd" /\ codecResult.done)
    => LET cmd == codecCall.arg
           out == codecResult.value
           decoded == [k \in 1..Len(out) |-> IF out[k] = "+" THEN " " ELSE out[k]]
           plain == \A k \in 1..Len(cmd) : cmd[k] \notin {"+", "%"}
           NotSpace(c) == c # " "
           NotPlus(c) == c # "+"
           IsPercent(c) == c = "%"
       IN  /\ \A k \in 1..Len(out) : out[k] # " "
           /\ Len(SelectSeq(out, IsPercent)) = Len(SelectSeq(cmd, IsPercent))
           /\ plain => /\ SelectSeq(out, NotPlus) = SelectSeq(cmd, NotSpace)
                       /\ Len(out) - Len(SelectSeq(out, NotPlus))
                             = IF Words(cmd) = << >> THEN 0 ELSE Len(Words(cmd)) - 1
                       /\ Words(decoded) = Words(cmd)
                       /\ decoded = Trim(decoded)
                       /\ \A k \in 1..(Len(decoded) - 1) :
                             ~(decoded[k] = " " /\ decoded[k + 1] = " ")

\* A command with a leading space and a run of two inner spaces was
\* encoded with one + for the run.
EncodeWitness ==
    /\ codecCall = [fn |-> "normalizeCmd", arg |-> <<" ", "$", " ", " ", "1">>]
    /\ codecResult.done
    /\ codecResult.value = <<"$", "+", "1">>

\* C26: an action reply is classified Ok if and only if it starts with
\* $A0, ActionFailed if and only if it starts with $AF, and Unrecognized
\* otherwise; both non-Ok classes are failures for the caller, and the
\* Unrecognized error carries the raw reply text.
ReplyClassifiedByPrefix ==
    (codecCall.fn = "assertActionOk" /\ codecResult.done)
    => LET body == codecCall.arg
           r == codecResult.value
           prefix == IF Len(body) >= 3 THEN <<body[1], body[2], body[3]>> ELSE << >>
           n == Len(r.message)
       IN  /\ r.class = "ok" <=> prefix = <<"$", "A", "0">>
           /\ r.class = "$AF" <=> prefix = <<"$", "A", "F">>
           /\ r.class = "unexpected" <=> prefix \notin {<<"$", "A", "0">>, <<"$", "A", "F">>}
           /\ r.threw <=> r.class # "ok"
           /\ r.class = "unexpected"
              => n >= Len(body) /\ SubSeq(r.message, n - Len(body) + 1, n) = body
           /\ LegResult("A0") = "ok" /\ LegResult("AF") # "ok" /\ LegResult("junk") # "ok"

\* A reply with a space before $A0 was classified as unrecognized, with
\* the reply text in the error.
UnrecognizedReplyWitness ==
    /\ codecCall = [fn |-> "assertActionOk", arg |-> <<" ", "$", "A", "0">>]
    /\ codecResult.done
    /\ codecResult.value.class = "unexpected" /\ codecResult.value.threw
    /\ codecResult.value.message = <<"Unexpected response for : ", " ", "$", "A", "0">>

\* C27 as stated: the published bit string has outlet 1 at the right-most
\* character, so rendering the snapshot decoded from a bit string b gives
\* back b.
RenderGivesBackBits ==
    (codecCall.fn = "updateVariablesFromState" /\ codecResult.done)
    => codecResult.value = codecCall.arg

\* C27, amended: the published bit string is in outlet order, outlet 1 at
\* the left-most character, so rendering the snapshot decoded from a bit
\* string b gives b reversed.
RenderGivesReversedBits ==
    (codecCall.fn = "updateVariablesFromState" /\ codecResult.done)
    => LET b == codecCall.arg
           out == codecResult.value
       IN  /\ Len(out) = Len(b)
           /\ \A k \in 1..Len(b) : out[k] = b[Len(b) + 1 - k]
           /\ out[1] = b[Len(b)]

\* The wire string 10100 (outlets 3 and 5 ON) was published as 00101.
RenderWitness ==
    /\ codecCall = [fn |-> "updateVariablesFromState",
                    arg |-> <<"1", "0", "1", "0", "0">>]
    /\ codecResult.done
    /\ codecResult.value = <<"0", "0", "1", "0", "1">>

\* The connected feedback: instance.status === InstanceStatus.Ok. The
\* sources never assign instance.status; `mirrored` tells whether the base
\* class keeps the status last passed to updateStatus() in that property
\* (otherwise the property is undefined and the comparison is false).
Connected(mirrored) == mirrored /\ status = "Ok"

\* C28: the Connected indication is true exactly when the most recently
\* completed status poll succeeded; it is not true before any poll has
\* completed, and it is false after a failed poll until a later poll
\* succeeds. (Stated for whichever way the base class treats
\* instance.status; the poll that ended last is known where the handler
\* that ended last was a poll.)
ConnectedTracksLastPoll ==
    \E mirrored \in BOOLEAN :
        /\ (lifecycle = "running" /\ reqs = << >>) => ~Connected(mirrored)
        /\ lastEnded.op = "poll"
           => (Connected(mirrored) <=> lastEnded.result = "ok")

\* C29: a successful poll signals the dependent surfaces (actions,
\* feedbacks, variables, presets) to rebuild if and only if the decoded
\* outlet count differs from the outlet count cached just before that poll
\* was applied; a failed poll rebuilds nothing.
RebuildIffCountDiffers ==
    [][\A i \in Requests :
          (PollHandled(i) /\ lastEnded'.op = "poll")
          => /\ lastEnded'.result = "ok"
                => /\ lastEnded'.cause \in GoodStatus
                   /\ portCount' = ParseStatusResponse(ReplyBody(lastEnded'.cause)).portCount
                   /\ (lastEnded'.events = <<"rebuild">>) <=> (portCount' # portCount)
                   /\ lastEnded'.events \in {<< >>, <<"rebuild">>}
             /\ lastEnded'.result = "failed" => lastEnded'.events = << >>]_vars

\* A poll decoded two outlets where five were cached, and rebuilt.
RebuildWitness ==
    /\ lastEnded.op = "poll"
    /\ lastEnded.result = "ok"
    /\ lastEnded.cause = "status2"
    /\ lastEnded.events = <<"rebuild">>
    /\ portCount = 2

RebootWaits == {c \in 1..Len(calls) : calls[c].phase \in {"WaitingDelay", "Settling", "OnInFlight"}}

\* C30 as the specification words it: the wait between the end of the OFF
\* leg and the ON leg is max(d, 0) for every delay d the caller gives, so
\* a negative delay is treated as 0.
DelayClampedAtZero ==
    \A c \in RebootWaits :
        LET k == calls[c]
            wait == IF k.arg > 0 THEN k.arg ELSE 0
        IN  /\ (k.phase = "WaitingDelay" /\ k.sinceOff = 0) => k.timer = wait
            /\ k.phase \in {"Settling", "OnInFlight"} => k.sinceOff >= wait

\* C30: the wait between the end of the OFF leg and the ON leg is the
\* delay d the caller gives when d is 0 or more, and the default of 5000 ms
\* when d is negative: the timer is armed with that wait when OFF has
\* succeeded, and neither the reset that opens the ON leg nor the ON leg
\* itself comes before that much time has passed.
NegativeDelayTakesDefault ==
    \A c \in RebootWaits :
        LET k == calls[c]
            wait == IF k.arg >= 0 THEN k.arg ELSE 5000
        IN  /\ (k.phase = "WaitingDelay" /\ k.sinceOff = 0) => k.timer = wait
            /\ k.phase \in {"Settling", "OnInFlight"} => k.sinceOff >= wait

\* The ON leg of a reboot asked for with a delay of -100 ms is on the wire,
\* 5000 ms and the settle pause after its OFF leg ended.
NegativeDelayWitness ==
    \E c \in RebootWaits :
        /\ calls[c].arg = -100
        /\ calls[c].phase = "OnInFlight"
        /\ calls[c].sinceOff = 5000 + SettleMs

ControlOps == {"set_outlet", "toggle_outlet", "set_all", "reboot_outlet"}

\* The invocation made in this step ended in it with an error (it named a
\* bad outlet, or get() refused for want of a host).
FailsAtOnce ==
    /\ Len(calls') = Len(calls) + 1
    /\ calls'[Len(calls')].phase = "Ended"
    /\ lastEnded'.result # "ignored"

UserLegs == {"set", "off", "on"}
WaitingUserCommands == {i \in Unsettled : reqs[i].leg \in UserLegs}

\* Status queries of the scheduler (the ticks) that are ahead of request i
\* in the transport queue.
PollsAhead(i) == {j \in OutstandingPolls : reqs[j].leg = "poll_tick" /\ j < i}

AtMostOnePollAhead ==
    \A i \in WaitingUserCommands : Cardinality(PollsAhead(i)) <= 1

\* This step is a tick of the poll timer that submits a status query.
TickSubmits ==
    /\ PollTick
    /\ Len(reqs') = Len(reqs) + 1
    /\ reqs'[Len(reqs')].leg = "poll_tick"

StatusFields(raw) ==
    LET text == Trim(raw)
        comma == IndexOf(text, ",")
    IN  Split(IF ~StartsWith(text, <<"$", "A", "0">>) THEN text
              ELSE IF comma = 0 THEN << >>
              ELSE SubSeq(text, comma + 1, Len(text)))

\* What a telemetry field reads as: its number when it is numeric,
\* unavailable (<< >>) when it is empty, blank or not a number.
Reading(field) ==
    LET t == Trim(field)
    IN  IF t # << >> /\ (\A k \in 1..Len(t) : t[k] \in Digits)
        THEN <<DecimalValue(t)>> ELSE << >>

\* C34: trailing telemetry never fails the status parse: when at least two
\* fields follow the bit field, the last is read as the temperature and
\* the one before it as the current, a non-numeric or empty field reads as
\* unavailable and not as a number; with fewer fields both readings are
\* unavailable.
TelemetryBestEffort ==
    (codecCall.fn = "parseStatusResponse" /\ codecResult.done /\ codecResult.value.ok)
    => LET fields == StatusFields(codecCall.arg)
           n == Len(fields)
       IN  IF n >= 3
           THEN /\ codecResult.value.tempC = Reading(fields[n])
                /\ codecResult.value.currentAmps = Reading(fields[n - 1])
           ELSE /\ codecResult.value.tempC = << >>
                /\ codecResult.value.currentAmps = << >>

\* C35: the cached outlet count is 5 when the instance is constructed and
\* stays 5 until a poll succeeds; it is 2 or 5 in every reachable state,
\* and only a successful poll ever changes it, whatever polls, failures,
\* actions and reboots occur.
OutletCountTwoOrFive ==
    [][/\ lifecycle = "constructed" => portCount = 5
       /\ portCount \in {2, 5} /\ portCount' \in {2, 5}
       /\ portCount' # portCount
          => \E i \in Requests :
                /\ PollHandled(i)
                /\ lastEnded'.op = "poll" /\ lastEnded'.result = "ok"
      ]_vars

\* A second successful poll has brought the count back from 2 to 5.
OutletCountWitness ==
    /\ portCount = 5
    /\ lastEnded.op = "poll"
    /\ lastEnded.cause = "status5"
    /\ lastEnded.events = <<"rebuild">>

\* The cached state of outlet m: instance.outletState[m - 1], "hole" where
\* the array has no such slot.
CachedState(arr, m) == IF m \in 1..Len(arr) THEN arr[m] ELSE "hole"

\* The step ends the exchange of request i, a leg of a reboot, with
\* `reply`, and leaves everything of the cache but the state of the
\* reboot's own outlet as it was.
LegKeepsTheRest(i, reply) ==
    /\ EndExchange(i, reply)
    /\ reqs[i].leg \in {"off", "on"}
    /\ UNCHANGED <<portCount, currentAmps, tempC, lastError, status>>
    /\ \A m \in 1..5 :
          m # calls[reqs[i].call].outlet
          => CachedState(outletState', m) = CachedState(outletState, m)
    /\ reply # "A0" => outletState' = outletState

LegWrites(i) == IF reqs[i].leg = "off" THEN "false" ELSE "true"

\* C36 as stated: a reboot leg updates the cache only for its own outlet
\* and only on success: after OFF succeeds the cached state of that outlet
\* is OFF, after ON succeeds it is ON, and the outlet count, the other
\* outlets' states, telemetry, last-error and connectivity are unchanged.
LegSetsOwnOutlet ==
    [][\A i \in Requests, reply \in ControlReplies \cup Failures :
          (EndExchange(i, reply) /\ reqs[i].leg \in {"off", "on"})
          => /\ LegKeepsTheRest(i, reply)
             /\ reply = "A0"
                => CachedState(outletState', calls[reqs[i].call].outlet) = LegWrites(i)
      ]_vars

\* C36, amended: a reboot leg updates the cache only for its own outlet and
\* only on success, and only where that outlet is within the outlet count
\* cached when the leg completes: then the cached state of the outlet is
\* OFF after the OFF leg and ON after the ON leg; where the count has
\* shrunk below the outlet since the reboot was accepted, a successful leg
\* leaves the outlet states as they are. The outlet count, the other
\* outlets' states, telemetry, last-error and connectivity are unchanged.
LegSetsOwnOutletInRange ==
    [][\A i \in Requests, reply \in ControlReplies \cup Failures :
          (EndExchange(i, reply) /\ reqs[i].leg \in {"off", "on"})
          => /\ LegKeepsTheRest(i, reply)
             /\ (reply = "A0" /\ calls[reqs[i].call].outlet <= portCount)
                => CachedState(outletState', calls[reqs[i].call].outlet) = LegWrites(i)
             /\ (reply = "A0" /\ calls[reqs[i].call].outlet > portCount)
                => outletState' = outletState
      ]_vars

\* The OFF leg of a reboot of outlet 5 has succeeded after a poll that was
\* on the wire when the reboot was asked for had found two outlets.
LegOutOfRangeWitness ==
    \E c \in 1..Len(calls) :
        /\ calls[c].phase = "WaitingDelay"
        /\ calls[c].outlet = 5
        /\ portCount = 2
        /\ Len(outletState) = 2

\* The cached outlet states are one entry per cached outlet, none missing.
StatesMatchCount ==
    /\ Len(outletState) = portCount
    /\ \A m \in 1..Len(outletState) : outletState[m] \in {"true", "false"}

\* C37: once a poll has succeeded, the cached outlet-state sequence has
\* exactly as many entries as the cached outlet count in every later
\* state: a successful poll leaves it so, and no reboot leg, action or
\* failed poll that finds it so lengthens it, shortens it or leaves a gap.
StatesKeepCount ==
    [][/\ (\E i \in Requests : PollHandled(i) /\ lastEnded'.op = "poll"
                                 /\ lastEnded'.result = "ok")
          => StatesMatchCount'
       /\ StatesMatchCount => StatesMatchCount'
      ]_vars

\* After a poll found two outlets, a reboot of outlet 2 ran to its end and
\* wrote its slot: there are still two entries.
StatesKeepCountWitness ==
    /\ lastEnded.op = "reboot_outlet"
    /\ lastEnded.result = "ok"
    /\ portCount = 2
    /\ outletState = <<"true", "true">>

\* The step is a call of one of the three actions that name an outlet,
\* made for outlet o.
CalledFor(o) ==
    \/ \E st \in SetStates : SetOutlet(o, st)
    \/ ToggleOutlet(o)
    \/ \E d \in RebootDelays : RebootOutlet(o, d)

\* C38: an action naming an outlet that is not in 1..cached outlet count
\* fails with an error before anything else happens: no command is
\* submitted and, for a reboot, no ticket is acquired and the in-progress
\* count is unchanged (nor is anything of the cache or the refresh flag).
BadOutletFailsFirst ==
    [][\A o \in ControlOutlets :
          (CalledFor(o) /\ ~(o >= 1 /\ o <= portCount))
          => /\ lastEnded'.outlet = o
             /\ lastEnded'.outcome = "threw"
             /\ lastEnded'.result = "invalidOutlet"
             /\ lastEnded'.events = << >>
             /\ calls'[Len(calls')].phase = "Ended"
             /\ UNCHANGED <<reqs, wire, pending, rebootLocks, rebootInProgress,
                            rebootingOutlets, needsStatusRefresh, outletState,
                            portCount, isPolling, agent>>
      ]_vars

\* A reboot was asked for outlet 5 while two outlets are cached: it threw
\* and holds no ticket.
BadOutletWitness ==
    /\ lastEnded.op = "reboot_outlet"
    /\ lastEnded.outlet = 5
    /\ lastEnded.result = "invalidOutlet"
    /\ portCount = 2
    /\ rebootLocks = {}
    /\ rebootInProgress = 0

\* C39: toggle submits a set-outlet command for the inverse of the outlet's
\* cached state as read when the action is called (ON gives 0, OFF or
\* unknown gives 1), and submits exactly one command per call: one when it
\* is called (for an outlet in range, with a host), none when its reply
\* comes.
ToggleSendsInverse ==
    [][/\ \A o \in ControlOutlets :
            (ToggleOutlet(o) /\ o >= 1 /\ o <= portCount /\ config.host # "")
            => /\ Len(reqs') = Len(reqs) + 1
               /\ reqs'[Len(reqs')].cmd =
                      [kw |-> "$A3", outlet |-> o,
                       state |-> IF CachedState(outletState, o) = "true" THEN 0 ELSE 1]
               /\ reqs'[Len(reqs')].call = Len(calls')
               /\ calls'[Len(calls')].op = "toggle_outlet"
               /\ \A i \in Requests : reqs'[i].cmd = reqs[i].cmd
       /\ \A i \in Requests, reply \in ControlReplies \cup Failures :
            (EndExchange(i, reply) /\ reqs[i].leg = "set"
             /\ calls[reqs[i].call].op = "toggle_outlet")
            => /\ Len(reqs') = Len(reqs)
               /\ calls'[reqs[i].call].phase = "Ended"
      ]_vars

\* Outlet 5, cached ON by a poll, was toggled: $A3 5 0 is on the wire.
ToggleWitness ==
    \E i \in InFlight :
        /\ reqs[i].cmd = [kw |-> "$A3", outlet |-> 5, state |-> 0]
        /\ calls[reqs[i].call].op = "toggle_outlet"
        /\ CachedState(outletState, 5) = "true"

\* The reboot sequences that are under way, and the outlets they are for.
ActiveReboots ==
    {c \in 1..Len(calls) : calls[c].op = "reboot_outlet" /\ calls[c].phase \in ActivePhases}
RebootedOutlets == {calls[c].outlet : c \in ActiveReboots}

\* C40: between callbacks the reboot in-progress count is the number of
\* held tickets, the outlets shown as rebooting are the outlets whose
\* ticket is held, and these are the outlets of the sequences under way;
\* the count is never negative and is 0 exactly when no reboot is active.
RebootBookkeeping ==
    /\ rebootInProgress = Cardinality(rebootLocks)
    /\ rebootingOutlets = rebootLocks
    /\ rebootLocks = RebootedOutlets
    /\ Cardinality(ActiveReboots) = rebootInProgress
    /\ rebootInProgress >= 0
    /\ rebootInProgress = 0 <=> ActiveReboots = {}

\* Two outlets are being rebooted at once, one in its delay and one whose
\* OFF command is on the wire: two tickets, two outlets shown, count 2.
RebootBookkeepingWitness ==
    /\ rebootInProgress = 2
    /\ rebootLocks = {1, 2}
    /\ rebootingOutlets = {1, 2}
    /\ \E c \in ActiveReboots : calls[c].phase = "WaitingDelay"
    /\ \E c \in ActiveReboots : calls[c].phase = "OffInFlight"

=============================================================================
